---- MODULE Spec2Model ----
(***************************************************************************)
(* Orchestration core of whisper-weave: the plugin instance registry, tool *)
(* resolution, the tool executor, the agentic generate/tool loop and the   *)
(* connector (channel) message handler.                                    *)
(***************************************************************************)
EXTENDS Integers, Sequences, FiniteSets, TLC

(***************************************************************************)
(* Bounds of the model                                                     *)
(***************************************************************************)
\* plugin objects constructed by loadPlugin in one behaviour
MaxObjects == 3
\* registry calls (addPlugin / configurePlugin / unloadPlugin) in flight at once
MaxTasks == 2
\* inbound connector messages handled in one behaviour
MaxMessages == 2
\* handleConnectorMessage invocations in flight at once
MaxHandlers == 1
\* sendTyping calls counted
MaxTypingCalls == 2
\* length of the id list passed to getToolsForActionIds
MaxActionIds == 2
\* getToolsForActionIds calls observed in one behaviour
MaxResolveCalls == 3
\* realtime events of the plugins collection handled in one behaviour
MaxEvents == 3
\* executeAutomation invocations in flight at once
MaxRuns == 1
\* executeAutomation invocations started in one behaviour
MaxStarted == 2
\* runs of one automation, one after the other (one more than the default cap)
MaxHistoryRuns == 11
\* inbound messages handled one after the other (more than fill the cache)
MaxCacheMessages == 17
\* of these, the exchanges on the second channel
MaxSideMessages == 1

(***************************************************************************)
(* Program constants                                                       *)
(***************************************************************************)
MAX_TOOL_LOOP_ITERATIONS == 10

\* `undefined` for an optional string
Undefined == "undefined"

\* an optional non-string value: <<>> when undefined, <<v>> when set
None == <<>>
Some(v) == <<v>>

(***************************************************************************)
(* State                                                                   *)
(***************************************************************************)
VARIABLES
  plugins,      \* the registry Map: instance id -> index into entries, 0 = absent
  entries,      \* InstanceEntry objects ever created (identity = index)
  objs,         \* plugin objects ever constructed by loadPlugin (identity = index)
  env,          \* behaviour of the collaborators: Model mock menu, handlers, approval hook
  gw,           \* frame of the generateWithTools invocation
  handlerLog,   \* tool handler invocations, in order
  tasks,        \* registry calls in flight: addPlugin / configurePlugin / unloadPlugin frames
  resolution,   \* the last two getToolsForActionIds calls: arguments, registry read, result
  hs,           \* handleConnectorMessage frames
  sendLog,      \* sendMessage / sendError calls made on connectors, in order
  timers,       \* message ids whose typing setInterval is active
  typingCalls,  \* sendTyping calls made (capped)
  connectorConversationCache,  \* cacheKey -> LLMMessage[]
  conversations,               \* persisted conversation records
  delivered,    \* inbound messages delivered so far
  records,      \* plugin records of the PocketBase `plugins` collection
  events,       \* number of realtime events delivered to the subscription
  automations,  \* automation records of the PocketBase `automations` collection
  scheduledJobs,  \* the scheduler's Map: automation id -> the record its running cron job closes over
  cronJobs,     \* CronJob objects ever constructed (identity = index)
  autoEvents,   \* realtime events of the `automations` collection not yet handled
  runs,         \* executeAutomation frames
  runsStarted   \* executeAutomation invocations started so far

regVars == <<plugins, entries, objs>>
loopVars == <<gw, handlerLog>>
taskVars == <<tasks>>
resVars == <<resolution>>
chanVars == <<hs, sendLog, timers, typingCalls, connectorConversationCache, conversations, delivered>>
autoVars == <<automations, scheduledJobs, cronJobs, autoEvents, runs, runsStarted>>
recVars == <<records, events, autoVars>>

vars == <<plugins, entries, objs, env, gw, handlerLog, tasks, resolution, hs, sendLog, timers,
          typingCalls, connectorConversationCache, conversations, delivered, records, events, automations, scheduledJobs, cronJobs, autoEvents,
          runs, runsStarted>>

(***************************************************************************)
(* Plugin catalog and capabilities                                         *)
(***************************************************************************)
InstanceIds == {"p1", "a", "b", "c1"}

CatalogTypes == {"llm", "tools", "gated", "telegram", "avatrr"}

hasConnector(plugin) == plugin.type \in {"telegram", "avatrr"}

hasTools(plugin) == plugin.type \in {"tools", "gated"}

hasLLM(plugin) == plugin.type = "llm"

\* the instance declares the optional requestApproval hook
\* connector plugins whose Connector implements the optional onSlashCommand
hasOnSlashCommand(plugin) == plugin.type = "telegram"

hasRequestApproval(plugin) == plugin.type = "gated"

ToolWithHandler(type, name) ==
  [name |-> name, description |-> type \o ":" \o name, handler |-> type \o "#" \o name]

\* plugin.getTools()
getTools(plugin) ==
  IF plugin.type = "tools" THEN <<ToolWithHandler("tools", "search"), ToolWithHandler("tools", "echo")>>
  ELSE IF plugin.type = "gated" THEN <<ToolWithHandler("gated", "search")>>
  ELSE <<>>

toToolKeepingHandler(tool) == tool

\* const { handler: _, ...rest } = tool
toTool(tool) == [name |-> tool.name, description |-> tool.description]

toTools(tools) == [i \in 1..Len(tools) |-> toTool(tools[i])]

\* a plugin object as constructed by the loader: not connected, nothing wired.
\* forId records the instance id it was constructed for; onMessage is the entry
\* captured by the registered inbound-message callback (0 = none registered);
\* onSlashCommand is the instance id captured by the registered slash-command
\* callback ("" = none registered)
NewPluginObject(id, type, config) ==
  [forId |-> id, type |-> type, config |-> config, conn |-> "down", onMessage |-> 0,
   onSlashCommand |-> "", connectCalls |-> 0, disconnectCalls |-> 0, shutdownCalls |-> 0]

NewEntry(id, type, config, plugin) ==
  [id |-> id, type |-> type, config |-> config, enabled |-> TRUE, plugin |-> plugin]

\* plugins.get(id): the entry, or 0 when absent
PluginsGet(id) == IF id \in DOMAIN plugins THEN plugins[id] ELSE 0

(***************************************************************************)
(* Tool resolution                                                         *)
(***************************************************************************)
ToolNamesOf(tools) == {tools[i].name : i \in 1..Len(tools)}

MapSetAllFirstWins(map, pluginTools, id) ==
  [n \in DOMAIN map \cup ToolNamesOf(pluginTools) |-> IF n \in DOMAIN map THEN map[n] ELSE id]

\* for (const tool of pluginTools) nameToInstanceId.set(tool.name, id)
MapSetAll(map, pluginTools, id) ==
  [n \in DOMAIN map \cup ToolNamesOf(pluginTools) |-> IF n \in ToolNamesOf(pluginTools) THEN id ELSE map[n]]

RECURSIVE ResolveFrom(_, _, _)
ResolveFrom(actionIds, tools, nameToInstanceId) ==
  IF actionIds = <<>> THEN [tools |-> tools, nameToInstanceId |-> nameToInstanceId]
  ELSE LET id == Head(actionIds)
           e == PluginsGet(id)
       IN IF e = 0 \/ ~entries[e].enabled
          THEN ResolveFrom(Tail(actionIds), tools, nameToInstanceId)
          ELSE IF hasTools(objs[entries[e].plugin])
               THEN LET pluginTools == getTools(objs[entries[e].plugin])
                    IN ResolveFrom(Tail(actionIds), tools \o toTools(pluginTools),
                                   MapSetAll(nameToInstanceId, pluginTools, id))
               ELSE ResolveFrom(Tail(actionIds), tools, nameToInstanceId)

getToolsForActionIds(actionIds) == ResolveFrom(actionIds, <<>>, <<>>)

(***************************************************************************)
(* Values exchanged with the Model and the tools                           *)
(***************************************************************************)
ToolUse(id, name) == [id |-> id, name |-> name, input |-> "in-" \o name]

LLMMessage(role, content) ==
  [role |-> role, content |-> content, toolUses |-> <<>>, toolCallId |-> Undefined, toolName |-> Undefined]

\* responses the mocked Model can give
NoResponse == [content |-> Undefined, toolUses |-> <<>>]
RespDone == [content |-> "done", toolUses |-> <<>>]
RespSearch == [content |-> "", toolUses |-> <<ToolUse("t1", "search")>>]
RespEchoGhost == [content |-> "let me see", toolUses |-> <<ToolUse("t1", "echo"), ToolUse("t2", "ghost")>>]
Responses == {RespDone, RespSearch, RespEchoGhost}

\* a JS value: a string or an object (record)
Str(s) == [type |-> "string", value |-> s]
Obj(r) == [type |-> "object", value |-> r]

\* JSON.stringify on the result objects that occur
JSONStringify(r) ==
  IF DOMAIN r = {"error"} THEN "{\"error\":\"" \o r.error \o "\"}"
  ELSE IF DOMAIN r = {"success", "error", "message"}
       THEN "{\"success\":false,\"error\":\"" \o r.error \o "\",\"message\":\"" \o r.message \o "\"}"
  ELSE IF DOMAIN r = {"results"} THEN "{\"results\":\"" \o r.results \o "\"}"
  ELSE "{}"

\* what a tool handler resolves to
HandlerResult(tool) ==
  IF tool.name = "echo" THEN Str("echoed") ELSE Obj([results |-> tool.handler])

\* what a failing tool handler throws: an Error for search, a non-Error value for echo
HandlerThrown(tool) ==
  IF tool.name = "echo" THEN [isError |-> FALSE, message |-> "plain rejection"]
  ELSE [isError |-> TRUE, message |-> "search backend down"]

Err(message) == [isError |-> TRUE, message |-> message]

NotApproved == Obj([error |-> "Action was not approved"])

HasTool(tools, name) == \E i \in 1..Len(tools) : tools[i].name = name

\* tools.find((t) => t.name === name), for a name that is declared
FindTool(tools, name) ==
  tools[CHOOSE i \in 1..Len(tools) : tools[i].name = name /\ \A j \in 1..(i - 1) : tools[j].name # name]

(***************************************************************************)
(* Tool executor                                                           *)
(***************************************************************************)
executeToolAbsentReturns(instanceId, toolUse) ==
  LET e == PluginsGet(instanceId)
      plugin == objs[entries[e].plugin]
      tool == FindTool(getTools(plugin), toolUse.name)
      call == [instance |-> instanceId, object |-> entries[e].plugin, tool |-> toolUse.name, id |-> toolUse.id]
  IN IF e = 0 \/ ~hasTools(plugin)
     THEN [threw |-> FALSE, value |-> Obj([error |-> "Plugin with tools not found: " \o instanceId]), calls |-> <<>>]
     ELSE IF ~HasTool(getTools(plugin), toolUse.name)
          THEN [threw |-> TRUE, thrown |-> Err("Tool not found: " \o toolUse.name), calls |-> <<>>]
          ELSE IF hasRequestApproval(plugin) /\ ~env.approves
               THEN [threw |-> FALSE, value |-> NotApproved, calls |-> <<>>]
               ELSE IF toolUse.name \in env.throws
                    THEN [threw |-> TRUE, thrown |-> HandlerThrown(tool), calls |-> <<call>>]
                    ELSE [threw |-> FALSE, value |-> HandlerResult(tool), calls |-> <<call>>]

executeToolNoGate(instanceId, toolUse) ==
  LET e == PluginsGet(instanceId)
      plugin == objs[entries[e].plugin]
      tool == FindTool(getTools(plugin), toolUse.name)
      call == [instance |-> instanceId, object |-> entries[e].plugin, tool |-> toolUse.name, id |-> toolUse.id]
  IN IF e = 0 \/ ~hasTools(plugin)
     THEN [threw |-> TRUE, thrown |-> Err("Plugin with tools not found: " \o instanceId), calls |-> <<>>]
     ELSE IF ~HasTool(getTools(plugin), toolUse.name)
          THEN [threw |-> TRUE, thrown |-> Err("Tool not found: " \o toolUse.name), calls |-> <<>>]
          ELSE IF toolUse.name \in env.throws
               THEN [threw |-> TRUE, thrown |-> HandlerThrown(tool), calls |-> <<call>>]
               ELSE [threw |-> FALSE, value |-> HandlerResult(tool), calls |-> <<call>>]

\* outcome of executeTool: the value returned or the exception thrown, and the
\* handler invocations it made
executeTool(instanceId, toolUse) ==
  LET e == PluginsGet(instanceId)
      plugin == objs[entries[e].plugin]
      tool == FindTool(getTools(plugin), toolUse.name)
      call == [instance |-> instanceId, object |-> entries[e].plugin, tool |-> toolUse.name, id |-> toolUse.id]
  IN IF e = 0 \/ ~hasTools(plugin)
     THEN [threw |-> TRUE, thrown |-> Err("Plugin with tools not found: " \o instanceId), calls |-> <<>>]
     ELSE IF ~HasTool(getTools(plugin), toolUse.name)
          THEN [threw |-> TRUE, thrown |-> Err("Tool not found: " \o toolUse.name), calls |-> <<>>]
          ELSE IF hasRequestApproval(plugin) /\ ~env.approves
               THEN [threw |-> FALSE, value |-> NotApproved, calls |-> <<>>]
               ELSE IF toolUse.name \in env.throws
                    THEN [threw |-> TRUE, thrown |-> HandlerThrown(tool), calls |-> <<call>>]
                    ELSE [threw |-> FALSE, value |-> HandlerResult(tool), calls |-> <<call>>]

(***************************************************************************)
(* Agentic loop: generateWithTools                                         *)
(***************************************************************************)
IdleFrame ==
  [pc |-> "idle", providerId |-> Undefined, messages |-> <<>>, currentMessages |-> <<>>,
   tools |-> <<>>, nameToInstanceId |-> <<>>, iter |-> 0, pending |-> <<>>,
   toolUsages |-> <<>>, genLog |-> <<>>, response |-> NoResponse, error |-> Undefined,
   optionTools |-> None, via |-> Undefined]

ToolFailureHint(name) ==
  "The tool \"" \o name \o "\" encountered a technical error. Please inform the user that there was a problem and suggest they try again later."

ToolResultContent(result) ==
  IF result.type = "string" THEN result.value ELSE JSONStringify(result.value)

ToolOutcome(toolUse, result, error, calls) ==
  [usage |-> [toolName |-> toolUse.name, input |-> toolUse.input, output |-> result, error |-> error],
   message |-> [role |-> "tool", content |-> ToolResultContent(result), toolUses |-> <<>>,
                toolCallId |-> toolUse.id, toolName |-> toolUse.name],
   calls |-> calls]

ProcessToolUseErrorUnset(toolUse, nameToInstanceId) ==
  IF toolUse.name \notin DOMAIN nameToInstanceId
  THEN ToolOutcome(toolUse, Obj([error |-> "Unknown tool: " \o toolUse.name]), "Unknown tool: " \o toolUse.name, <<>>)
  ELSE LET out == executeTool(nameToInstanceId[toolUse.name], toolUse)
       IN IF out.threw
          THEN LET error == IF out.thrown.isError THEN out.thrown.message ELSE "Tool execution failed"
               IN ToolOutcome(toolUse,
                              Obj([success |-> FALSE, error |-> error, message |-> ToolFailureHint(toolUse.name)]),
                              Undefined, out.calls)
          ELSE ToolOutcome(toolUse, out.value, Undefined, out.calls)

ProcessToolUseUnknownAsFailure(toolUse, nameToInstanceId) ==
  IF toolUse.name \notin DOMAIN nameToInstanceId
  THEN ToolOutcome(toolUse,
                   Obj([success |-> FALSE, error |-> "Unknown tool: " \o toolUse.name,
                        message |-> ToolFailureHint(toolUse.name)]),
                   "Unknown tool: " \o toolUse.name, <<>>)
  ELSE LET out == executeTool(nameToInstanceId[toolUse.name], toolUse)
       IN IF out.threw
          THEN LET error == IF out.thrown.isError THEN out.thrown.message ELSE "Tool execution failed"
               IN ToolOutcome(toolUse,
                              Obj([success |-> FALSE, error |-> error, message |-> ToolFailureHint(toolUse.name)]),
                              error, out.calls)
          ELSE ToolOutcome(toolUse, out.value, Undefined, out.calls)

\* body of `for (const toolUse of response.toolUses)`: the result, the
\* ToolUsageRecord and the tool-role message of one requested tool use
ProcessToolUse(toolUse, nameToInstanceId) ==
  IF toolUse.name \notin DOMAIN nameToInstanceId
  THEN ToolOutcome(toolUse, Obj([error |-> "Unknown tool: " \o toolUse.name]), "Unknown tool: " \o toolUse.name, <<>>)
  ELSE LET out == executeTool(nameToInstanceId[toolUse.name], toolUse)
       IN IF out.threw
          THEN LET error == IF out.thrown.isError THEN out.thrown.message ELSE "Tool execution failed"
               IN ToolOutcome(toolUse,
                              Obj([success |-> FALSE, error |-> error, message |-> ToolFailureHint(toolUse.name)]),
                              error, out.calls)
          ELSE ToolOutcome(toolUse, out.value, Undefined, out.calls)

\* entry of generateWithTools: provider check and the initial locals
StartFrame(providerId, messages, tools, nameToInstanceId) ==
  LET e == PluginsGet(providerId)
  IN IF e = 0 \/ ~entries[e].enabled \/ ~hasLLM(objs[entries[e].plugin])
     THEN [IdleFrame EXCEPT !.pc = "threw", !.providerId = providerId, !.messages = messages,
                            !.error = "LLM provider not found or disabled"]
     ELSE [IdleFrame EXCEPT !.pc = "generate", !.providerId = providerId, !.messages = messages,
                            !.currentMessages = messages, !.tools = tools,
                            !.nameToInstanceId = nameToInstanceId]

\* genOptions.tools
GenOptionsTools(tools) == IF Len(tools) > 0 THEN Some(tools) ELSE None

LoopContinuesOffByOne(iter) == iter <= MAX_TOOL_LOOP_ITERATIONS

\* loop condition of `for (let iter = 0; iter < MAX_TOOL_LOOP_ITERATIONS; iter++)`
LoopContinues(iter) == iter < MAX_TOOL_LOOP_ITERATIONS

\* one llm.generate call: the message list passed (a prefix of currentMessages,
\* given by its length), options.tools, and the response (NoResponse if it threw)
GenLogEntry(frame, tools, response) ==
  [messages |-> Len(frame.currentMessages), tools |-> tools, response |-> response]

GenerateRespondsWithoutTurn(response) ==
  /\ gw.pc = "generate"
  /\ response \in env.menu
  /\ LET logged == [gw EXCEPT !.genLog = Append(@, GenLogEntry(gw, GenOptionsTools(gw.tools), response))]
     IN IF Len(response.toolUses) = 0
        THEN gw' = [logged EXCEPT !.pc = "returned", !.response = response]
        ELSE gw' = [logged EXCEPT !.pc = "tools", !.pending = response.toolUses]
  /\ UNCHANGED <<regVars, taskVars, resVars, chanVars, recVars, env, handlerLog>>

\* llm.generate inside the loop answers with `response`
GenerateResponds(response) ==
  /\ gw.pc = "generate"
  /\ response \in env.menu
  /\ LET logged == [gw EXCEPT !.genLog = Append(@, GenLogEntry(gw, GenOptionsTools(gw.tools), response))]
     IN IF Len(response.toolUses) = 0
        THEN gw' = [logged EXCEPT !.pc = "returned", !.response = response]
        ELSE gw' = [logged EXCEPT !.pc = "tools",
                                  !.currentMessages = Append(@, [LLMMessage("assistant", response.content)
                                                                   EXCEPT !.toolUses = response.toolUses]),
                                  !.pending = response.toolUses]
  /\ UNCHANGED <<regVars, taskVars, resVars, chanVars, recVars, env, handlerLog>>

\* llm.generate rejects: the exception leaves generateWithTools
GenerateThrows ==
  /\ gw.pc \in {"generate", "final"}
  /\ gw' = [gw EXCEPT !.pc = "threw", !.error = "upstream failure",
                      !.genLog = Append(@, GenLogEntry(gw, IF gw.pc = "final" THEN None
                                                           ELSE GenOptionsTools(gw.tools),
                                                       NoResponse))]
  /\ UNCHANGED <<regVars, taskVars, resVars, chanVars, recVars, env, handlerLog>>

ToolStepNewestFirst ==
  /\ gw.pc = "tools"
  /\ LET toolUse == gw.pending[Len(gw.pending)]
         outcome == ProcessToolUse(toolUse, gw.nameToInstanceId)
         rest == SubSeq(gw.pending, 1, Len(gw.pending) - 1)
         appended == [gw EXCEPT !.toolUsages = Append(@, outcome.usage),
                                !.currentMessages = Append(@, outcome.message),
                                !.pending = rest]
     IN /\ gw' = IF rest # <<>> THEN appended
                 ELSE [appended EXCEPT !.iter = @ + 1,
                                       !.pc = IF LoopContinues(gw.iter + 1) THEN "generate" ELSE "final"]
        /\ handlerLog' = handlerLog \o outcome.calls
  /\ UNCHANGED <<regVars, taskVars, resVars, chanVars, recVars, env>>

\* one requested tool use is executed and its result appended
ToolStep ==
  /\ gw.pc = "tools"
  /\ LET toolUse == Head(gw.pending)
         outcome == ProcessToolUse(toolUse, gw.nameToInstanceId)
         rest == Tail(gw.pending)
         appended == [gw EXCEPT !.toolUsages = Append(@, outcome.usage),
                                !.currentMessages = Append(@, outcome.message),
                                !.pending = rest]
     IN /\ gw' = IF rest # <<>> THEN appended
                 ELSE [appended EXCEPT !.iter = @ + 1,
                                       !.pc = IF LoopContinues(gw.iter + 1) THEN "generate" ELSE "final"]
        /\ handlerLog' = handlerLog \o outcome.calls
  /\ UNCHANGED <<regVars, taskVars, resVars, chanVars, recVars, env>>

\* the final llm.generate after the cap, with tools omitted
FinalGenerateResponds(response) ==
  /\ gw.pc = "final"
  /\ response \in env.menu
  /\ gw' = [gw EXCEPT !.pc = "returned", !.response = response,
                      !.genLog = Append(@, GenLogEntry(gw, None, response))]
  /\ UNCHANGED <<regVars, taskVars, resVars, chanVars, recVars, env, handlerLog>>

LoopNext ==
  \/ \E response \in Responses : GenerateResponds(response)
  \/ GenerateThrows
  \/ ToolStep
  \/ \E response \in Responses : FinalGenerateResponds(response)

(***************************************************************************)
(* Direct chat: chatService.generateWithAssistant                          *)
(***************************************************************************)
\* assistant records of the configuration store (read-only here)
Assistants ==
  [as1 |-> [llmProvider |-> "p1", llmModel |-> "m1", systemPrompt |-> "be brief", tools |-> <<"a", "b">>],
   as2 |-> [llmProvider |-> "p1", llmModel |-> "m1", systemPrompt |-> "", tools |-> <<"a">>],
   as3 |-> [llmProvider |-> "c1", llmModel |-> "m1", systemPrompt |-> "", tools |-> <<>>],
   as4 |-> [llmProvider |-> "", llmModel |-> "", systemPrompt |-> "", tools |-> <<"a">>],
   as5 |-> [llmProvider |-> "p1", llmModel |-> "m1", systemPrompt |-> "", tools |-> <<>>]]

AssistantIds == DOMAIN Assistants

ChatInput == <<LLMMessage("user", "hello")>>

\* system prompt prepended to (or merged into) the caller's messages
WithSystemPrompt(systemPrompt, messages) ==
  IF systemPrompt = "" THEN messages
  ELSE IF Len(messages) > 0 /\ messages[1].role = "system"
       THEN <<LLMMessage("system", systemPrompt \o "\n\n" \o messages[1].content)>> \o Tail(messages)
       ELSE <<LLMMessage("system", systemPrompt)>> \o messages

generateWithAssistant(assistantId) ==
  /\ gw.pc = "idle"
  /\ LET assistant == Assistants[assistantId]
     IN /\ assistant.llmProvider # "" /\ assistant.llmModel # ""
        /\ LET built == getToolsForActionIds(assistant.tools)
           IN gw' = StartFrame(assistant.llmProvider, WithSystemPrompt(assistant.systemPrompt, ChatInput),
                               built.tools, built.nameToInstanceId)
  /\ handlerLog' = <<>>
  /\ UNCHANGED <<regVars, taskVars, resVars, chanVars, recVars, env>>

\* the caller takes the result (or the exception) of generateWithTools
ChatReturn ==
  /\ gw.pc \in {"returned", "threw"}
  /\ gw' = IdleFrame
  /\ UNCHANGED <<regVars, taskVars, resVars, chanVars, recVars, env, handlerLog>>

(***************************************************************************)
(* Initial values of the parts a specification does not exercise           *)
(***************************************************************************)
Tasks == 1..MaxTasks

IdleTask ==
  [op |-> "idle", pc |-> "idle", id |-> Undefined, type |-> Undefined, config |-> Undefined,
   entry |-> 0, wasConnected |-> FALSE, error |-> Undefined]

QuietTasks == tasks = [t \in Tasks |-> IdleTask]

NoResolution == [calls |-> 0, last |-> None, repeated |-> FALSE]

QuietResolution == resolution = NoResolution

Handlers == 1..MaxHandlers

NoMessage == [id |-> "", channelId |-> "", content |-> ""]

\* locals of one handleConnectorMessage invocation; typingInterval tells whether
\* the local holds a timer (non-null); outcome names the return taken
IdleHandler ==
  [pc |-> "idle", entry |-> 0, connector |-> 0, message |-> NoMessage, typingInterval |-> FALSE,
   content |-> "", toolUsages |-> <<>>, existing |-> 0, existingMessages |-> <<>>,
   outcome |-> Undefined]

QuietChannels ==
  /\ hs = [h \in Handlers |-> IdleHandler]
  /\ sendLog = <<>>
  /\ timers = {}
  /\ typingCalls = 0
  /\ connectorConversationCache = <<>>
  /\ conversations = <<>>
  /\ delivered = 0

\* a plugin record; exists = FALSE stands for no record under that id
PluginRecord(type, config, enabled, assistant) ==
  [exists |-> TRUE, type |-> type, config |-> config, enabled |-> enabled, assistant |-> assistant]

NoRecord == [exists |-> FALSE, type |-> Undefined, config |-> Undefined, enabled |-> FALSE, assistant |-> ""]

NoRecords == [id \in InstanceIds |-> NoRecord]

AutomationIds == {"au1", "au2"}

\* an automation record; exists = FALSE stands for no record under that id;
\* maxExecutions is None when the field is unset
AutomationRecord(enabled, cron, assistant, executions, maxExecutions) ==
  [exists |-> TRUE, enabled |-> enabled, cron |-> cron, assistant |-> assistant, prompt |-> "report",
   executions |-> executions, maxExecutions |-> maxExecutions]

NoAutomation ==
  [exists |-> FALSE, enabled |-> FALSE, cron |-> "", assistant |-> "", prompt |-> "",
   executions |-> <<>>, maxExecutions |-> None]

Runs == 1..MaxRuns

\* locals of one executeAutomation invocation: the record it was called with,
\* the start time and the execution entry being stored
IdleRun ==
  [pc |-> "idle", id |-> Undefined, automation |-> NoAutomation, startTime |-> 0,
   execution |-> None, newExecutions |-> <<>>]

QuietAutomations ==
  /\ automations = [id \in AutomationIds |-> NoAutomation]
  /\ scheduledJobs = [id \in AutomationIds |-> None]
  /\ cronJobs = <<>>
  /\ autoEvents = <<>>
  /\ runs = [r \in Runs |-> IdleRun]
  /\ runsStarted = 0

(***************************************************************************)
(* Specification of the agentic loop over a fixed registry                 *)
(***************************************************************************)
\* registry with a Model provider p1 and the tool providers a (tools) and b (gated)
LoadedRegistry(ids, typeOf) ==
  /\ entries = [i \in 1..Len(ids) |-> NewEntry(ids[i], typeOf[i], "cfg1", i)]
  /\ objs = [i \in 1..Len(ids) |->
               IF hasConnector([type |-> typeOf[i]])
               THEN [NewPluginObject(ids[i], typeOf[i], "cfg1") EXCEPT !.onMessage = i, !.connectCalls = 1, !.conn = "up",
                           !.onSlashCommand = IF hasOnSlashCommand([type |-> typeOf[i]]) THEN ids[i] ELSE ""]
               ELSE NewPluginObject(ids[i], typeOf[i], "cfg1")]
  /\ plugins = [id \in InstanceIds |->
                  IF \E i \in 1..Len(ids) : ids[i] = id
                  THEN CHOOSE i \in 1..Len(ids) : ids[i] = id ELSE 0]

InitLoop ==
  /\ LoadedRegistry(<<"p1", "a", "b">>, <<"llm", "tools", "gated">>)
  /\ env \in [menu : {Responses}, throws : SUBSET {"search", "echo"}, approves : BOOLEAN]
  /\ records = NoRecords
  /\ events = 0
  /\ QuietAutomations
  /\ gw = IdleFrame
  /\ handlerLog = <<>>
  /\ QuietTasks /\ QuietResolution /\ QuietChannels

NextLoop ==
  \/ \E assistantId \in AssistantIds : generateWithAssistant(assistantId)
  \/ LoopNext
  \/ ChatReturn

SpecLoop == InitLoop /\ [][NextLoop]_vars

(***************************************************************************)
(* Properties of the agentic loop                                          *)
(***************************************************************************)
Last(seq) == seq[Len(seq)]

\* C1: generateWithTools issues at most MAX_TOOL_LOOP_ITERATIONS + 1 = 11
\* Model generate calls whatever the Model answers; the calls inside the loop
\* carry genOptions.tools; when the cap of 10 tool rounds is reached exactly
\* one more generate call is made, with tools omitted, and the invocation
\* returns the response of that call.
LoopTermination ==
  /\ MAX_TOOL_LOOP_ITERATIONS + 1 = 11
  /\ Len(gw.genLog) <= MAX_TOOL_LOOP_ITERATIONS + 1
  /\ gw.iter <= MAX_TOOL_LOOP_ITERATIONS
  /\ \A i \in 1..Len(gw.genLog) :
       gw.genLog[i].tools = IF i <= MAX_TOOL_LOOP_ITERATIONS THEN GenOptionsTools(gw.tools) ELSE None
  /\ gw.pc = "final" => gw.iter = MAX_TOOL_LOOP_ITERATIONS /\ Len(gw.genLog) = MAX_TOOL_LOOP_ITERATIONS
  /\ gw.pc \in {"generate", "tools"} => Len(gw.genLog) <= MAX_TOOL_LOOP_ITERATIONS
  /\ Len(gw.genLog) = MAX_TOOL_LOOP_ITERATIONS + 1 => gw.pc \in {"returned", "threw"}
  /\ gw.pc = "returned" => /\ gw.response \in env.menu
                           /\ gw.response = Last(gw.genLog).response
                           /\ Len(gw.genLog) = gw.iter + 1

\* C1 witness: the cap was reached with every response requesting tools, and
\* the 11th call, made without tools, produced the returned response
LoopCapReached ==
  /\ gw.pc = "returned"
  /\ gw.iter = MAX_TOOL_LOOP_ITERATIONS
  /\ Len(gw.genLog) = MAX_TOOL_LOOP_ITERATIONS + 1
  /\ Last(gw.genLog).tools = None
  /\ gw.genLog[1].tools # None
  /\ Len(gw.toolUsages) >= MAX_TOOL_LOOP_ITERATIONS

\* a step in which a tool handler was invoked and threw
HandlerThrewStep ==
  /\ Len(handlerLog') = Len(handlerLog) + 1
  /\ Last(handlerLog').tool \in env.throws

IsToolFailure(usage) ==
  /\ usage.error # Undefined
  /\ usage.output.type = "object"
  /\ DOMAIN usage.output.value = {"success", "error", "message"}
  /\ usage.output.value.success = FALSE
  /\ usage.output.value.error = usage.error
  /\ usage.output.value.message = ToolFailureHint(usage.toolName)

\* C2: a step in which a tool handler throws stays inside the loop: it adds one
\* ToolUsageRecord with error set and the structured failure as output, appends
\* the tool-role message carrying that failure for the same call id, and goes
\* on with the remaining tool uses or the next Model call; generateWithTools
\* only ever throws for a missing/disabled provider or a failed Model call.
ToolFailureIsolation ==
  /\ [][HandlerThrewStep =>
          /\ Len(gw'.toolUsages) = Len(gw.toolUsages) + 1
          /\ IsToolFailure(Last(gw'.toolUsages))
          /\ Last(gw'.toolUsages).toolName = Last(handlerLog').tool
          /\ Len(gw'.currentMessages) = Len(gw.currentMessages) + 1
          /\ Last(gw'.currentMessages).role = "tool"
          /\ Last(gw'.currentMessages).toolCallId = Last(handlerLog').id
          /\ Last(gw'.currentMessages).toolName = Last(handlerLog').tool
          /\ Last(gw'.currentMessages).content = JSONStringify(Last(gw'.toolUsages).output.value)
          /\ gw'.pc = IF Len(gw.pending) > 1 THEN "tools"
                      ELSE IF gw.iter + 1 < MAX_TOOL_LOOP_ITERATIONS THEN "generate" ELSE "final"]_vars
  /\ [](gw.pc = "threw" => gw.error \in {"LLM provider not found or disabled", "upstream failure"})
  /\ [](gw.pc = "returned" => gw.response \in env.menu)

\* C2 witness: a handler threw, later tool uses were still executed, and the
\* invocation returned a Model response
ReturnedAfterToolFailure ==
  /\ gw.pc = "returned"
  /\ gw.response = RespDone
  /\ \E i \in 1..Len(gw.toolUsages) :
       /\ IsToolFailure(gw.toolUsages[i])
       /\ gw.toolUsages[i].error \in {"search backend down", "Tool execution failed"}
       /\ i < Len(gw.toolUsages)

IsNotApproved(output) ==
  /\ output.type = "object"
  /\ DOMAIN output.value = {"error"}
  /\ output.value.error = "Action was not approved"

\* the tool use resolves to an instance that declares requestApproval, and the
\* hook answers false
DeniedUse(toolName) ==
  /\ toolName \in DOMAIN gw.nameToInstanceId
  /\ PluginsGet(gw.nameToInstanceId[toolName]) # 0
  /\ LET plugin == objs[entries[PluginsGet(gw.nameToInstanceId[toolName])].plugin]
     IN hasTools(plugin) /\ HasTool(getTools(plugin), toolName) /\ hasRequestApproval(plugin)
  /\ ~env.approves

\* C3: when the owning instance declares requestApproval and the hook returns
\* false, no handler of that instance is invoked, and the call's result is
\* exactly {error: "Action was not approved"} returned as a value: the
\* ToolUsageRecord has no error and the loop goes on.
ApprovalGate ==
  /\ \A k \in 1..Len(handlerLog) :
       hasRequestApproval(objs[handlerLog[k].object]) => env.approves
  /\ \A i \in 1..Len(gw.toolUsages) :
       DeniedUse(gw.toolUsages[i].toolName) =>
         /\ gw.toolUsages[i].output = NotApproved
         /\ gw.toolUsages[i].error = Undefined
  /\ \A i \in 1..Len(gw.currentMessages) :
       (gw.currentMessages[i].role = "tool" /\ DeniedUse(gw.currentMessages[i].toolName)) =>
         gw.currentMessages[i].content = "{\"error\":\"Action was not approved\"}"
  /\ gw.pc = "threw" => gw.error \in {"LLM provider not found or disabled", "upstream failure"}

\* C3 witness: a denied call is on record and the loop went on to return
DeniedAndReturned ==
  /\ gw.pc = "returned"
  /\ \E i \in 1..Len(gw.toolUsages) :
       /\ DeniedUse(gw.toolUsages[i].toolName)
       /\ IsNotApproved(gw.toolUsages[i].output)
  /\ handlerLog = <<>>

(***************************************************************************)
(* Instance registry: addPlugin / configurePlugin / unloadPlugin           *)
(* Every await is a point where other calls may run.  A call to an async   *)
(* method of a plugin (disconnect, shutdown, connect) takes effect when it *)
(* is issued; the awaiting frame resumes in a later step.                  *)
(***************************************************************************)
Configs == {"cfg1", "cfg2"}

\* the plugin constructor rejects the config
LoadFails(type, config) == config = "bad"

isConnected(o) == objs[o].conn = "up"

AfterShutdown(os, o) == [os EXCEPT ![o].shutdownCalls = @ + 1, ![o].conn = "down"]

AfterDisconnect(os, o) == [os EXCEPT ![o].disconnectCalls = @ + 1, ![o].conn = "down"]

AfterConnectOnly(os, o, e, up) ==
  [os EXCEPT ![o].connectCalls = @ + 1, ![o].conn = IF up THEN "up" ELSE "down"]

\* connector.onMessage(cb) with cb closing over entry e, connector.onSlashCommand?.(cb)
\* with cb closing over the instance id, then connector.connect(); up tells
\* whether the connection gets established
AfterWireAndConnect(os, o, e, up) ==
  [os EXCEPT ![o].onMessage = e,
             ![o].onSlashCommand = IF hasOnSlashCommand(os[o]) THEN os[o].forId ELSE "",
             ![o].connectCalls = @ + 1, ![o].conn = IF up THEN "up" ELSE "down"]

FreeSlot(t) == tasks[t].op = "idle" /\ \A u \in Tasks : u < t => tasks[u].op # "idle"

\* calls in flight that will construct a plugin object
Loading == {t \in Tasks : tasks[t].op \in {"add", "configure"} /\ tasks[t].pc \notin {"returned", "threw"}}

\* the model constructs at most MaxObjects plugin objects: a call that needs one
\* is started only while one is left
ObjectLeft == Len(objs) + Cardinality(Loading) < MaxObjects

InCatalogAny(type) == TRUE

\* getExternalCatalogEntries().find((e) => e.type === type) is defined
InCatalog(type) == type \in CatalogTypes

ExistingIgnored(id) == 0

\* const existing = plugins.get(id)
Existing(id) == PluginsGet(id)

\* addPlugin up to its first await
addPlugin(t, type, config, id) ==
  /\ FreeSlot(t)
  /\ LET frame == [IdleTask EXCEPT !.op = "add", !.id = id, !.type = type, !.config = config]
         existing == Existing(id)
     IN IF ~InCatalog(type)
        THEN /\ tasks' = [tasks EXCEPT ![t] = [frame EXCEPT !.pc = "threw",
                                                           !.error = "Plugin not found in catalog: " \o type]]
             /\ UNCHANGED regVars
        ELSE IF existing = 0
             THEN /\ ObjectLeft
                  /\ tasks' = [tasks EXCEPT ![t] = [frame EXCEPT !.pc = "loading"]]
                  /\ UNCHANGED regVars
             ELSE LET o == entries[existing].plugin
                  IN IF hasConnector(objs[o]) /\ isConnected(o)
                     THEN /\ tasks' = [tasks EXCEPT ![t] = [frame EXCEPT !.pc = "awaitDisconnect",
                                                                        !.entry = existing,
                                                                        !.wasConnected = TRUE]]
                          /\ ObjectLeft
                          /\ objs' = AfterDisconnect(objs, o)
                          /\ UNCHANGED <<plugins, entries>>
                     ELSE /\ tasks' = [tasks EXCEPT ![t] = [frame EXCEPT !.pc = "awaitShutdown",
                                                                        !.entry = existing]]
                          /\ ObjectLeft
                          /\ objs' = AfterShutdown(objs, o)
                          /\ UNCHANGED <<plugins, entries>>
  /\ UNCHANGED <<loopVars, resVars, chanVars, env>>

\* addPlugin / unloadPlugin: disconnect() settled, `await <entry>.plugin.shutdown()`
AfterDisconnectSettled(t) ==
  /\ tasks[t].op \in {"add", "unload"}
  /\ tasks[t].pc = "awaitDisconnect"
  /\ objs' = AfterShutdown(objs, entries[tasks[t].entry].plugin)
  /\ tasks' = [tasks EXCEPT ![t].pc = "awaitShutdown"]
  /\ UNCHANGED <<plugins, entries, loopVars, resVars, chanVars, recVars, env>>

\* addPlugin: shutdown() of the existing object settled: plugins.delete(id), loadPlugin
addAfterShutdown(t) ==
  /\ tasks[t].op = "add"
  /\ tasks[t].pc = "awaitShutdown"
  /\ plugins' = [plugins EXCEPT ![tasks[t].id] = 0]
  /\ tasks' = [tasks EXCEPT ![t].pc = "loading"]
  /\ UNCHANGED <<entries, objs, loopVars, resVars, chanVars, recVars, env>>

\* addPlugin: loadPlugin settled: the entry is installed and the connector wired
addLoaded(t, up) ==
  /\ tasks[t].op = "add"
  /\ tasks[t].pc = "loading"
  /\ IF LoadFails(tasks[t].type, tasks[t].config)
     THEN /\ tasks' = [tasks EXCEPT ![t].pc = "threw", ![t].error = "load failed"]
          /\ UNCHANGED regVars
     ELSE /\ LET o == Len(objs) + 1
                 e == Len(entries) + 1
                 plugin == NewPluginObject(tasks[t].id, tasks[t].type, tasks[t].config)
             IN /\ entries' = Append(entries, NewEntry(tasks[t].id, tasks[t].type, tasks[t].config, o))
                /\ plugins' = [plugins EXCEPT ![tasks[t].id] = e]
                /\ objs' = IF hasConnector(plugin)
                           THEN AfterWireAndConnect(Append(objs, plugin), o, e, up)
                           ELSE Append(objs, plugin)
                /\ up \/ hasConnector(plugin)
          /\ tasks' = [tasks EXCEPT ![t].pc = "returned"]
  /\ UNCHANGED <<loopVars, resVars, chanVars, recVars, env>>

\* configurePlugin up to its first await
configurePlugin(t, id, config) ==
  /\ FreeSlot(t)
  /\ LET frame == [IdleTask EXCEPT !.op = "configure", !.id = id, !.config = config]
         e == PluginsGet(id)
     IN IF e = 0
        THEN /\ tasks' = [tasks EXCEPT ![t] = [frame EXCEPT !.pc = "threw", !.error = "Instance not found"]]
             /\ UNCHANGED regVars
        ELSE /\ ObjectLeft
             /\ tasks' = [tasks EXCEPT ![t] = [frame EXCEPT !.pc = "awaitShutdown", !.entry = e]]
             /\ objs' = AfterShutdown(objs, entries[e].plugin)
             /\ UNCHANGED <<plugins, entries>>
  /\ UNCHANGED <<loopVars, resVars, chanVars, env>>

\* configurePlugin: shutdown() settled: entry.config = config, loadPlugin
configureAfterShutdown(t) ==
  /\ tasks[t].op = "configure"
  /\ tasks[t].pc = "awaitShutdown"
  /\ entries' = [entries EXCEPT ![tasks[t].entry].config = tasks[t].config]
  /\ tasks' = [tasks EXCEPT ![t].pc = "loading", ![t].type = entries[tasks[t].entry].type]
  /\ UNCHANGED <<plugins, objs, loopVars, resVars, chanVars, recVars, env>>

\* configurePlugin: loadPlugin settled: entry.plugin replaced and the connector wired
configureLoaded(t, up) ==
  /\ tasks[t].op = "configure"
  /\ tasks[t].pc = "loading"
  /\ IF LoadFails(tasks[t].type, tasks[t].config)
     THEN /\ tasks' = [tasks EXCEPT ![t].pc = "threw", ![t].error = "load failed"]
          /\ UNCHANGED regVars
     ELSE /\ LET o == Len(objs) + 1
                 plugin == NewPluginObject(tasks[t].id, tasks[t].type, tasks[t].config)
             IN /\ entries' = [entries EXCEPT ![tasks[t].entry].plugin = o]
                /\ objs' = IF hasConnector(plugin)
                           THEN AfterWireAndConnect(Append(objs, plugin), o, tasks[t].entry, up)
                           ELSE Append(objs, plugin)
                /\ up \/ hasConnector(plugin)
          /\ tasks' = [tasks EXCEPT ![t].pc = "returned"]
          /\ UNCHANGED plugins
  /\ UNCHANGED <<loopVars, resVars, chanVars, recVars, env>>

\* unloadPlugin up to its first await
unloadPlugin(t, id) ==
  /\ FreeSlot(t)
  /\ LET frame == [IdleTask EXCEPT !.op = "unload", !.id = id]
         e == PluginsGet(id)
     IN IF e = 0
        THEN /\ tasks' = [tasks EXCEPT ![t] = [frame EXCEPT !.pc = "returned"]]
             /\ UNCHANGED regVars
        ELSE LET o == entries[e].plugin
             IN IF hasConnector(objs[o]) /\ isConnected(o)
                THEN /\ tasks' = [tasks EXCEPT ![t] = [frame EXCEPT !.pc = "awaitDisconnect", !.entry = e,
                                                                   !.wasConnected = TRUE]]
                     /\ objs' = AfterDisconnect(objs, o)
                     /\ UNCHANGED <<plugins, entries>>
                ELSE /\ tasks' = [tasks EXCEPT ![t] = [frame EXCEPT !.pc = "awaitShutdown", !.entry = e]]
                     /\ objs' = AfterShutdown(objs, o)
                     /\ UNCHANGED <<plugins, entries>>
  /\ UNCHANGED <<loopVars, resVars, chanVars, env>>

unloadAfterShutdownNoEvict(t) ==
  /\ tasks[t].op = "unload"
  /\ tasks[t].pc = "awaitShutdown"
  /\ tasks' = [tasks EXCEPT ![t].pc = "returned"]
  /\ UNCHANGED <<plugins, entries, objs, loopVars, resVars, chanVars, recVars, env>>

\* unloadPlugin: shutdown() settled: plugins.delete(instanceId)
unloadAfterShutdown(t) ==
  /\ tasks[t].op = "unload"
  /\ tasks[t].pc = "awaitShutdown"
  /\ plugins' = [plugins EXCEPT ![tasks[t].id] = 0]
  /\ tasks' = [tasks EXCEPT ![t].pc = "returned"]
  /\ UNCHANGED <<entries, objs, loopVars, resVars, chanVars, recVars, env>>

\* toggleEnabled: synchronous
toggleEnabled(id) ==
  /\ PluginsGet(id) # 0
  /\ entries' = [entries EXCEPT ![PluginsGet(id)].enabled = ~@]
  /\ UNCHANGED <<plugins, objs, taskVars, loopVars, resVars, chanVars, recVars, env>>

\* the caller of a registry call takes its result or its exception
TaskSettles(t) ==
  /\ tasks[t].pc \in {"returned", "threw"}
  /\ tasks' = [tasks EXCEPT ![t] = IdleTask]
  /\ UNCHANGED <<regVars, loopVars, resVars, chanVars, recVars, env>>

TaskProgress(t) ==
  \/ AfterDisconnectSettled(t)
  \/ addAfterShutdown(t)
  \/ \E up \in BOOLEAN : addLoaded(t, up)
  \/ configureAfterShutdown(t)
  \/ \E up \in BOOLEAN : configureLoaded(t, up)
  \/ unloadAfterShutdown(t)
  \/ TaskSettles(t)

(***************************************************************************)
(* Registry driven by one caller at a time (each call awaited)             *)
(***************************************************************************)
RegIds == {"c1"}
RegTypes == {"telegram", "tools", "nope"}

NoTaskInFlight == \A t \in Tasks : tasks[t].op = "idle"

InitRegistry ==
  /\ plugins = [id \in InstanceIds |-> 0]
  /\ entries = <<>>
  /\ objs = <<>>
  /\ env = [menu |-> Responses, throws |-> {}, approves |-> TRUE]
  /\ records = NoRecords
  /\ events = 0
  /\ QuietAutomations
  /\ gw = IdleFrame
  /\ handlerLog = <<>>
  /\ QuietTasks /\ QuietResolution /\ QuietChannels

\* a registry call made by a caller that awaits each call before the next
AwaitedCall(t) ==
  /\ NoTaskInFlight
  /\ \/ \E type \in RegTypes, config \in Configs, id \in RegIds : addPlugin(t, type, config, id)
     \/ \E id \in RegIds, config \in Configs : configurePlugin(t, id, config)
     \/ \E id \in RegIds : unloadPlugin(t, id)
  /\ UNCHANGED recVars

NextSeq ==
  \/ \E t \in Tasks : AwaitedCall(t)
  \/ \E t \in Tasks : TaskProgress(t)

SpecSeq == InitRegistry /\ [][NextSeq]_vars

(***************************************************************************)
(* Properties of the registry under awaited calls                          *)
(***************************************************************************)
\* plugin objects constructed for id on which shutdown() was never called
LiveObjects(id) == {o \in 1..Len(objs) : objs[o].forId = id /\ objs[o].shutdownCalls = 0}

\* the step in which addPlugin call t installs its entry and issues connect()
AddInstalls(t) == tasks[t].op = "add" /\ tasks[t].pc = "loading" /\ tasks'[t].pc = "returned"

\* C4: with the calls made one after the other, addPlugin on an id that is
\* already present leaves exactly one live plugin object for the id (the one
\* held by the map), and when the second object is installed and its connect()
\* issued, the first object has had disconnect() called (if it was connected)
\* and shutdown() called.
ReplaceSemantics ==
  /\ [](\A id \in InstanceIds : Cardinality(LiveObjects(id)) <= 1)
  /\ [](\A t \in Tasks :
          (tasks[t].op = "add" /\ tasks[t].pc = "returned") =>
             /\ PluginsGet(tasks[t].id) # 0
             /\ LiveObjects(tasks[t].id) = {entries[PluginsGet(tasks[t].id)].plugin})
  /\ [][\A t \in Tasks :
          (AddInstalls(t) /\ tasks[t].entry # 0) =>
             LET first == entries[tasks[t].entry].plugin
                 second == Len(objs')
             IN /\ objs[first].shutdownCalls >= 1
                /\ tasks[t].wasConnected => objs[first].disconnectCalls >= 1
                /\ objs[first].conn = "down"
                /\ second = Len(objs) + 1
                /\ objs[first].forId = objs'[second].forId
                /\ objs'[second].connectCalls = IF hasConnector(objs'[second]) THEN 1 ELSE 0
                /\ \A o \in 1..Len(objs) : objs[o].connectCalls = objs'[o].connectCalls]_vars

\* C4 witness: the second addPlugin for c1 returned; the first object, which
\* was connected, has been disconnected and shut down, the second has connect() issued
ReplacedConnectedInstance ==
  \E t \in Tasks :
    /\ tasks[t].op = "add" /\ tasks[t].pc = "returned" /\ tasks[t].wasConnected
    /\ Len(objs) = 2
    /\ objs[1].forId = tasks[t].id /\ objs[2].forId = tasks[t].id
    /\ objs[1].disconnectCalls = 1 /\ objs[1].shutdownCalls = 1
    /\ objs[2].connectCalls = 1 /\ objs[2].shutdownCalls = 0
    /\ entries[PluginsGet(tasks[t].id)].plugin = 2

UnloadStarts(t) == tasks[t].op = "idle" /\ tasks'[t].op = "unload"

\* C10: unloadPlugin on a present id calls disconnect() if the connector is
\* connected, then shutdown(), then deletes the id from the map; on an absent
\* id it returns without an error, calls nothing and leaves the registry as it was.
RemoveSemantics ==
  /\ [][\A t \in Tasks :
          /\ (UnloadStarts(t) /\ PluginsGet(tasks'[t].id) = 0) =>
               /\ tasks'[t].pc = "returned"
               /\ tasks'[t].error = Undefined
               /\ UNCHANGED regVars
          /\ (UnloadStarts(t) /\ PluginsGet(tasks'[t].id) # 0) =>
               LET o == entries[PluginsGet(tasks'[t].id)].plugin
                   connected == hasConnector(objs[o]) /\ isConnected(o)
               IN /\ plugins' = plugins
                  /\ objs'[o].disconnectCalls = objs[o].disconnectCalls + (IF connected THEN 1 ELSE 0)
                  /\ objs'[o].shutdownCalls = objs[o].shutdownCalls + (IF connected THEN 0 ELSE 1)
                  /\ tasks'[t].pc = IF connected THEN "awaitDisconnect" ELSE "awaitShutdown"
          /\ (tasks[t].op = "unload" /\ tasks[t].pc = "awaitDisconnect" /\ tasks'[t].pc # "awaitDisconnect") =>
               LET o == entries[tasks[t].entry].plugin
               IN /\ objs[o].disconnectCalls >= 1
                  /\ objs'[o].shutdownCalls = objs[o].shutdownCalls + 1
                  /\ plugins' = plugins
                  /\ tasks'[t].pc = "awaitShutdown"
          /\ (tasks[t].op = "unload" /\ tasks[t].pc = "awaitShutdown" /\ tasks'[t].pc # "awaitShutdown") =>
               LET o == entries[tasks[t].entry].plugin
               IN /\ objs[o].shutdownCalls >= 1
                  /\ plugins[tasks[t].id] # 0
                  /\ plugins' = [plugins EXCEPT ![tasks[t].id] = 0]
                  /\ objs' = objs
                  /\ tasks'[t].pc = "returned"]_vars
  /\ [](\A t \in Tasks :
          (tasks[t].op = "unload" /\ tasks[t].pc \in {"returned", "threw"}) =>
             /\ tasks[t].pc = "returned"
             /\ PluginsGet(tasks[t].id) = 0)

\* C10 witness: a connected connector instance was unloaded: disconnected,
\* shut down and evicted
UnloadedConnectedInstance ==
  \E t \in Tasks :
    /\ tasks[t].op = "unload" /\ tasks[t].pc = "returned" /\ tasks[t].wasConnected
    /\ tasks[t].entry # 0
    /\ objs[entries[tasks[t].entry].plugin].disconnectCalls = 1
    /\ objs[entries[tasks[t].entry].plugin].shutdownCalls = 1
    /\ PluginsGet(tasks[t].id) = 0

(***************************************************************************)
(* Registry driven by the realtime subscription: the handlers of the       *)
(* events run concurrently, interleaving at their awaits                   *)
(***************************************************************************)
LoadedIds == {id \in InstanceIds : PluginsGet(id) # 0}

\* connectConnector, called for an update that leaves the config as it is
connectConnector(id, up) ==
  /\ PluginsGet(id) # 0
  /\ LET o == entries[PluginsGet(id)].plugin
     IN /\ hasConnector(objs[o])
        /\ ~isConnected(o)
        /\ objs' = [objs EXCEPT ![o].connectCalls = @ + 1, ![o].conn = IF up THEN "up" ELSE "down"]
  /\ UNCHANGED <<plugins, entries, taskVars>>

\* a record is created: the 'create' event handler loads it if enabled
OnCreate(t, id, record) ==
  /\ events < MaxEvents
  /\ events' = events + 1
  /\ ~records[id].exists
  /\ records' = [records EXCEPT ![id] = record]
  /\ UNCHANGED autoVars
  /\ IF record.enabled
     THEN addPlugin(t, record.type, record.config, id)
     ELSE UNCHANGED <<regVars, taskVars, loopVars, resVars, chanVars, env>>

\* a record is deleted: the 'delete' event handler unloads it if loaded
OnDelete(t, id) ==
  /\ events < MaxEvents
  /\ events' = events + 1
  /\ records[id].exists
  /\ records' = [records EXCEPT ![id] = NoRecord]
  /\ UNCHANGED autoVars
  /\ IF id \in LoadedIds
     THEN unloadPlugin(t, id)
     ELSE UNCHANGED <<regVars, taskVars, loopVars, resVars, chanVars, env>>

\* a record is updated: the 'update' event handler unloads, loads, reconfigures
\* or reconnects
OnUpdate(t, id, record, up) ==
  /\ events < MaxEvents
  /\ events' = events + 1
  /\ records[id].exists
  /\ record.type = records[id].type
  /\ record # records[id]
  /\ records' = [records EXCEPT ![id] = record]
  /\ UNCHANGED autoVars
  /\ IF ~record.enabled
     THEN IF id \in LoadedIds
          THEN unloadPlugin(t, id)
          ELSE UNCHANGED <<regVars, taskVars, loopVars, resVars, chanVars, env>>
     ELSE IF id \notin LoadedIds
          THEN addPlugin(t, record.type, record.config, id)
          ELSE IF record.config # entries[PluginsGet(id)].config
               THEN configurePlugin(t, id, record.config)
               ELSE IF hasConnector(objs[entries[PluginsGet(id)].plugin])
                       /\ ~isConnected(entries[PluginsGet(id)].plugin)
                    THEN connectConnector(id, up) /\ UNCHANGED <<loopVars, resVars, chanVars, env>>
                    ELSE UNCHANGED <<regVars, taskVars, loopVars, resVars, chanVars, env>>

EventTypes == {"telegram", "tools"}

EventRecords(id) ==
  {PluginRecord(type, config, enabled, "") : type \in EventTypes, config \in Configs, enabled \in BOOLEAN}

NextReg ==
  \/ \E t \in Tasks, id \in RegIds : \E record \in EventRecords(id) : OnCreate(t, id, record)
  \/ \E t \in Tasks, id \in RegIds : OnDelete(t, id)
  \/ \E t \in Tasks, id \in RegIds, up \in BOOLEAN : \E record \in EventRecords(id) : OnUpdate(t, id, record, up)
  \/ \E t \in Tasks : TaskProgress(t)

SpecReg == InitRegistry /\ [][NextReg]_vars

\* C5: at every reachable state there is at most one live (constructed, not
\* shut down) plugin object per instance id, also when the handlers of several
\* events for the same id are in flight and interleave at their awaits.
AtMostOneLiveObjectPerId == \A id \in InstanceIds : Cardinality(LiveObjects(id)) <= 1

(***************************************************************************)
(* Tool resolution against a registry whose instances are toggled          *)
(***************************************************************************)
RECURSIVE SeqsUpTo(_, _)
SeqsUpTo(S, n) ==
  IF n = 0 THEN {<<>>}
  ELSE SeqsUpTo(S, n - 1) \cup {Append(q, x) : q \in {r \in SeqsUpTo(S, n - 1) : Len(r) = n - 1}, x \in S}

ActionIdLists == SeqsUpTo({"a", "b", "c1"}, MaxActionIds)

Registry == [plugins |-> plugins, entries |-> entries, objs |-> objs]

ResolveToolsDisabling(actionIds) ==
  /\ resolution.calls < MaxResolveCalls
  /\ resolution' = [calls |-> resolution.calls + 1,
                    last |-> Some([actionIds |-> actionIds, registry |-> Registry,
                                   result |-> getToolsForActionIds(actionIds)]),
                    repeated |-> /\ resolution.last # None
                                 /\ resolution.last[1].actionIds = actionIds
                                 /\ resolution.last[1].registry = Registry]
  /\ entries' = [e \in 1..Len(entries) |->
                   IF \E i \in 1..Len(actionIds) : actionIds[i] = entries[e].id
                   THEN [entries[e] EXCEPT !.enabled = FALSE] ELSE entries[e]]
  /\ UNCHANGED <<plugins, objs, taskVars, loopVars, chanVars, recVars, env>>

\* a caller resolves the tools of actionIds; the call and its result are kept
ResolveTools(actionIds) ==
  /\ resolution.calls < MaxResolveCalls
  /\ resolution' = [calls |-> resolution.calls + 1,
                    last |-> Some([actionIds |-> actionIds, registry |-> Registry,
                                   result |-> getToolsForActionIds(actionIds)]),
                    repeated |-> /\ resolution.last # None
                                 /\ resolution.last[1].actionIds = actionIds
                                 /\ resolution.last[1].registry = Registry]
  /\ UNCHANGED <<regVars, taskVars, loopVars, chanVars, recVars, env>>

ToggleForResolve(id) ==
  /\ toggleEnabled(id)
  /\ UNCHANGED resVars

InitResolve ==
  /\ \E ta \in {"tools", "gated"}, tb \in {"tools", "gated", "llm"} :
       LoadedRegistry(<<"p1", "a", "b">>, <<"llm", ta, tb>>)
  /\ env = [menu |-> Responses, throws |-> {}, approves |-> TRUE]
  /\ records = NoRecords
  /\ events = 0
  /\ QuietAutomations
  /\ gw = IdleFrame
  /\ handlerLog = <<>>
  /\ QuietTasks /\ QuietResolution /\ QuietChannels

NextResolve ==
  \/ \E actionIds \in ActionIdLists : ResolveTools(actionIds)
  \/ \E id \in {"a", "b"} : ToggleForResolve(id)

SpecResolve == InitResolve /\ [][NextResolve]_vars

\* the instance under id contributes tools in registry reg: present, enabled, Tooling
Contributes(reg, id) ==
  /\ reg.plugins[id] # 0
  /\ reg.entries[reg.plugins[id]].enabled
  /\ hasTools(reg.objs[reg.entries[reg.plugins[id]].plugin])

DeclaredTools(reg, id) == getTools(reg.objs[reg.entries[reg.plugins[id]].plugin])

Declares(reg, id, name) == Contributes(reg, id) /\ HasTool(DeclaredTools(reg, id), name)

Occurrences(seq, x) == Cardinality({i \in 1..Len(seq) : seq[i] = x})

\* C8: when two enabled tool providers both declare a tool name, the reverse
\* index of getToolsForActionIds maps the name to the one that comes later in
\* the id list, and the schema list holds the schema of each of them.
LastProviderWins ==
  resolution.last # None =>
    LET call == resolution.last[1]
        ids == call.actionIds
        reg == call.registry
        map == call.result.nameToInstanceId
        schemas == call.result.tools
    IN \A i, j \in 1..Len(ids) : \A name \in {"search", "echo"} :
         (/\ i < j
          /\ ids[i] # ids[j]
          /\ Declares(reg, ids[i], name)
          /\ Declares(reg, ids[j], name)
          /\ \A k \in (j + 1)..Len(ids) : ~Declares(reg, ids[k], name)) =>
            /\ name \in DOMAIN map
            /\ map[name] = ids[j]
            /\ \A k \in {i, j} :
                 Occurrences(schemas, toTool(FindTool(DeclaredTools(reg, ids[k]), name))) >= 1
            /\ Cardinality({k \in 1..Len(schemas) : schemas[k].name = name}) >= 2

\* C8 witness: a (tools) and b (gated) are enabled and both declare search;
\* the resolution of <<a, b>> maps search to b and lists both schemas
BothDeclareSearch ==
  /\ resolution.last # None
  /\ resolution.last[1].actionIds = <<"a", "b">>
  /\ Declares(resolution.last[1].registry, "a", "search")
  /\ Declares(resolution.last[1].registry, "b", "search")
  /\ DeclaredTools(resolution.last[1].registry, "a") # DeclaredTools(resolution.last[1].registry, "b")
  /\ resolution.last[1].result.nameToInstanceId["search"] = "b"
  /\ Len(resolution.last[1].result.tools) = 3

MAX_CACHED_MESSAGES == 30

ChannelIds == {"ch1", "ch2"}

MessageId(n) == "m" \o ToString(n)

Message(n, channelId) == [id |-> MessageId(n), channelId |-> channelId, content |-> "hi " \o ToString(n)]

\* the optional Connector methods each connector plugin implements
hasSendMessage(plugin) == plugin.type \in {"telegram", "avatrr"}
hasSendTyping(plugin) == plugin.type = "telegram"
hasSendError(plugin) == plugin.type = "avatrr"

NotConfiguredNotice ==
  "No assistant is configured for this bot. Configure one in the web UI (Assistants page)."

\* one call made on the connector of plugin object `connector`; replyTo is ""
\* for the calls that carry none (sendTyping, sendError)
Sent(connector, kind, channelId, content, replyTo) ==
  [connector |-> connector, kind |-> kind, channelId |-> channelId, content |-> content,
   replyTo |-> replyTo]

\* connectorRecord?.assistant resolved through assistantRepository.getOne
\* (null when the record, the binding or the assistant is missing)
AssistantOf(id) ==
  IF records[id].exists /\ records[id].assistant \in AssistantIds
  THEN Some(Assistants[records[id].assistant]) ELSE None

ConfiguredIgnoringProvider(assistant) == assistant # None

\* negation of `!assistant?.llmProvider || !assistant?.llmModel`
Configured(assistant) ==
  /\ assistant # None
  /\ assistant[1].llmProvider # ""
  /\ assistant[1].llmModel # ""

CacheKey(id, channelId) == id \o ":" \o channelId

\* connectorConversationCache.get(cacheKey) ?? []
CacheGet(cacheKey) ==
  IF cacheKey \in DOMAIN connectorConversationCache THEN connectorConversationCache[cacheKey] ELSE <<>>

SliceLastKeepsOldest(list, n) ==
  IF Len(list) > n THEN SubSeq(list, 1, n) ELSE list

\* list.length > n ? list.slice(-n) : list
SliceLast(list, n) ==
  IF Len(list) > n THEN SubSeq(list, Len(list) - n + 1, Len(list)) ELSE list

\* the lowest handler frame that is not running
FreeHandler(h) ==
  /\ hs[h].pc \in {"idle", "done"}
  /\ \A u \in Handlers : u < h => hs[u].pc \notin {"idle", "done"}

\* stopTyping(): clearInterval when the local holds a timer
StopTyping(frame) == IF frame.typingInterval THEN timers \ {frame.message.id} ELSE timers

\* the connector of plugin object o delivers an inbound message to its onMessage
\* callback, which calls handleConnectorMessage with the entry it closes over;
\* limit bounds the messages delivered in one behaviour
handleConnectorMessage(h, o, channelId, limit) ==
  /\ FreeHandler(h)
  /\ delivered < limit
  /\ o \in 1..Len(objs)
  /\ objs[o].onMessage # 0
  /\ isConnected(o)
  /\ delivered' = delivered + 1
  /\ LET e == objs[o].onMessage
         started == [IdleHandler EXCEPT !.entry = e, !.message = Message(delivered + 1, channelId)]
     IN hs' = [hs EXCEPT ![h] =
                 IF ~entries[e].enabled \/ ~hasConnector(objs[entries[e].plugin])
                 THEN [started EXCEPT !.pc = "done", !.outcome = "dropped"]
                 ELSE [started EXCEPT !.pc = "lookup", !.connector = entries[e].plugin]]
  /\ UNCHANGED <<sendLog, timers, typingCalls, connectorConversationCache, conversations>>
  /\ UNCHANGED <<regVars, taskVars, loopVars, resVars, recVars, env>>

InboundMessage(h, o, channelId) == handleConnectorMessage(h, o, channelId, MaxMessages)

\* the assistant lookup has resolved and no usable assistant is bound:
\* the notice is sent and the handler awaits the send
LookupNotConfigured(h) ==
  /\ hs[h].pc = "lookup"
  /\ ~Configured(AssistantOf(entries[hs[h].entry].id))
  /\ sendLog' = IF hasSendMessage(objs[hs[h].connector])
                THEN Append(sendLog, Sent(hs[h].connector, "sendMessage", hs[h].message.channelId,
                                          NotConfiguredNotice, hs[h].message.id))
                ELSE sendLog
  /\ hs' = [hs EXCEPT ![h].pc = "notice"]
  /\ UNCHANGED <<timers, typingCalls, connectorConversationCache, conversations, delivered>>
  /\ UNCHANGED <<regVars, taskVars, loopVars, resVars, recVars, env>>

\* the assistant lookup has resolved to a usable assistant: tools are resolved,
\* the typing heartbeat starts, the messages are built from the cache and
\* generateWithTools is entered
LookupConfigured(h) ==
  /\ hs[h].pc = "lookup"
  /\ Configured(AssistantOf(entries[hs[h].entry].id))
  /\ gw.pc = "idle"
  /\ LET frame == hs[h]
         assistant == AssistantOf(entries[frame.entry].id)[1]
         built == getToolsForActionIds(assistant.tools)
         typing == hasSendTyping(objs[frame.connector])
         cached == SliceLast(CacheGet(CacheKey(entries[frame.entry].id, frame.message.channelId)),
                             MAX_CACHED_MESSAGES)
         messages == <<LLMMessage("system", assistant.systemPrompt)>> \o cached
                       \o <<LLMMessage("user", frame.message.content)>>
     IN /\ sendLog' = IF typing
                      THEN Append(sendLog, Sent(frame.connector, "sendTyping", frame.message.channelId, "", ""))
                      ELSE sendLog
        /\ timers' = IF typing THEN timers \cup {frame.message.id} ELSE timers
        /\ hs' = [hs EXCEPT ![h].pc = "generating", ![h].typingInterval = typing]
        /\ gw' = StartFrame(assistant.llmProvider, messages, built.tools, built.nameToInstanceId)
  /\ handlerLog' = <<>>
  /\ UNCHANGED <<typingCalls, connectorConversationCache, conversations, delivered>>
  /\ UNCHANGED <<regVars, taskVars, resVars, recVars, env>>

\* the interval callback of an active timer fires and calls sendTyping
TypingTick(id) ==
  /\ id \in timers
  /\ typingCalls < MaxTypingCalls
  /\ typingCalls' = typingCalls + 1
  /\ UNCHANGED <<hs, sendLog, timers, connectorConversationCache, conversations, delivered>>
  /\ UNCHANGED <<regVars, taskVars, loopVars, resVars, recVars, env>>

GenerationThrewSilently(h) ==
  /\ hs[h].pc = "generating"
  /\ gw.pc = "threw"
  /\ timers' = StopTyping(hs[h])
  /\ hs' = [hs EXCEPT ![h].pc = "errorSent", ![h].typingInterval = FALSE]
  /\ gw' = IdleFrame
  /\ UNCHANGED <<sendLog, typingCalls, connectorConversationCache, conversations, delivered, handlerLog>>
  /\ UNCHANGED <<regVars, taskVars, resVars, recVars, env>>

\* generateWithTools rejected: the catch branch stops the heartbeat and sends
\* the error through sendError, else through sendMessage
GenerationThrew(h) ==
  /\ hs[h].pc = "generating"
  /\ gw.pc = "threw"
  /\ LET frame == hs[h]
         connector == objs[frame.connector]
     IN /\ timers' = StopTyping(frame)
        /\ sendLog' = IF hasSendError(connector)
                      THEN Append(sendLog, Sent(frame.connector, "sendError", frame.message.channelId, gw.error, ""))
                      ELSE IF hasSendMessage(connector)
                           THEN Append(sendLog, Sent(frame.connector, "sendMessage", frame.message.channelId,
                                                     "Error: " \o gw.error, frame.message.id))
                           ELSE sendLog
        /\ hs' = [hs EXCEPT ![h].pc = "errorSent", ![h].typingInterval = FALSE]
  /\ gw' = IdleFrame
  /\ UNCHANGED <<typingCalls, connectorConversationCache, conversations, delivered, handlerLog>>
  /\ UNCHANGED <<regVars, taskVars, resVars, recVars, env>>

\* generateWithTools returned: the reply is sent and the handler awaits the send
GenerationReturned(h) ==
  /\ hs[h].pc = "generating"
  /\ gw.pc = "returned"
  /\ sendLog' = IF hasSendMessage(objs[hs[h].connector])
                THEN Append(sendLog, Sent(hs[h].connector, "sendMessage", hs[h].message.channelId,
                                          gw.response.content, hs[h].message.id))
                ELSE sendLog
  /\ hs' = [hs EXCEPT ![h].pc = "replying", ![h].content = gw.response.content,
                      ![h].toolUsages = gw.toolUsages]
  /\ gw' = IdleFrame
  /\ UNCHANGED <<timers, typingCalls, connectorConversationCache, conversations, delivered, handlerLog>>
  /\ UNCHANGED <<regVars, taskVars, resVars, recVars, env>>

\* a ConversationMessage
ConversationMessage(id, role, content, toolUsage) ==
  [id |-> id, role |-> role, content |-> content, toolUsage |-> toolUsage]

NewMessagesWithoutTools(frame) ==
  <<ConversationMessage(frame.message.id, "user", frame.message.content, None),
    ConversationMessage("assistant-" \o frame.message.id, "assistant", frame.content, None)>>

\* newMessages: the user entry, one tool entry per usage, the assistant entry
NewMessages(frame) ==
  <<ConversationMessage(frame.message.id, "user", frame.message.content, None)>>
  \o [i \in 1..Len(frame.toolUsages) |->
        LET usage == frame.toolUsages[i]
        IN ConversationMessage("tool-" \o frame.message.id \o "-" \o ToString(i - 1), "tool",
                               IF usage.error # Undefined THEN usage.error
                               ELSE ToolResultContent(usage.output),
                               Some(usage))]
  \o <<ConversationMessage("assistant-" \o frame.message.id, "assistant", frame.content, None)>>

\* conversations.find(...) over the list sorted by '-created': the newest match, 0 if none
FindConversation(list, connectorId, channelId) ==
  LET matches == {i \in 1..Len(list) : list[i].connectorId = connectorId /\ list[i].channelId = channelId}
  IN IF matches = {} THEN 0 ELSE CHOOSE i \in matches : \A j \in matches : j <= i

\* the send of the reply settles; when it rejects the exception leaves the
\* handler, otherwise the exchange is appended to the cache and findAll is awaited
ReplySettles(h, ok) ==
  /\ hs[h].pc = "replying"
  /\ IF ok
     THEN LET frame == hs[h]
              cacheKey == CacheKey(entries[frame.entry].id, frame.message.channelId)
              nextCached == CacheGet(cacheKey) \o <<LLMMessage("user", frame.message.content),
                                                   LLMMessage("assistant", frame.content)>>
          IN /\ connectorConversationCache' =
                  [k \in DOMAIN connectorConversationCache \cup {cacheKey} |->
                     IF k = cacheKey THEN SliceLast(nextCached, MAX_CACHED_MESSAGES)
                     ELSE connectorConversationCache[k]]
             /\ hs' = [hs EXCEPT ![h].pc = "persistFind"]
     ELSE /\ hs' = [hs EXCEPT ![h].pc = "done", ![h].outcome = "replyFailed"]
          /\ UNCHANGED connectorConversationCache
  /\ UNCHANGED <<sendLog, timers, typingCalls, conversations, delivered>>
  /\ UNCHANGED <<regVars, taskVars, loopVars, resVars, recVars, env>>

\* conversationRepository.findAll() resolves (with [] when the query failed);
\* the record to extend is looked up and the update or create is issued
PersistFind(h, ok) ==
  /\ hs[h].pc = "persistFind"
  /\ LET frame == hs[h]
         list == IF ok THEN conversations ELSE <<>>
         existing == FindConversation(list, entries[frame.entry].id, frame.message.channelId)
     IN hs' = [hs EXCEPT ![h].pc = "persistWrite", ![h].existing = existing,
                         ![h].existingMessages = IF existing = 0 THEN <<>> ELSE list[existing].messages]
  /\ UNCHANGED <<sendLog, timers, typingCalls, connectorConversationCache, conversations, delivered>>
  /\ UNCHANGED <<regVars, taskVars, loopVars, resVars, recVars, env>>

\* the update or create settles; a rejection is caught and logged
PersistWrite(h, ok) ==
  /\ hs[h].pc = "persistWrite"
  /\ LET frame == hs[h]
     IN conversations' =
          IF ~ok THEN conversations
          ELSE IF frame.existing # 0
               THEN [conversations EXCEPT ![frame.existing].messages = frame.existingMessages \o NewMessages(frame)]
               ELSE Append(conversations,
                           [title |-> objs[frame.connector].type \o " (" \o frame.message.channelId \o ")",
                            messages |-> NewMessages(frame),
                            connectorId |-> entries[frame.entry].id,
                            channelId |-> frame.message.channelId])
  /\ hs' = [hs EXCEPT ![h].pc = "done", ![h].outcome = IF ok THEN "replied" ELSE "unpersisted"]
  /\ UNCHANGED <<sendLog, timers, typingCalls, connectorConversationCache, delivered>>
  /\ UNCHANGED <<regVars, taskVars, loopVars, resVars, recVars, env>>

\* the send of the not-configured notice or of the error settles (a rejection
\* is caught and logged) and the handler returns
SendSettles(h) ==
  /\ hs[h].pc \in {"notice", "errorSent"}
  /\ hs' = [hs EXCEPT ![h].pc = "done",
                      ![h].outcome = IF hs[h].pc = "notice" THEN "notConfigured" ELSE "error"]
  /\ UNCHANGED <<sendLog, timers, typingCalls, connectorConversationCache, conversations, delivered>>
  /\ UNCHANGED <<regVars, taskVars, loopVars, resVars, recVars, env>>

HandlerNext(h) ==
  \/ LookupNotConfigured(h)
  \/ LookupConfigured(h)
  \/ GenerationThrew(h)
  \/ GenerationReturned(h)
  \/ \E ok \in BOOLEAN : ReplySettles(h, ok)
  \/ \E ok \in BOOLEAN : PersistFind(h, ok)
  \/ \E ok \in BOOLEAN : PersistWrite(h, ok)
  \/ SendSettles(h)

(***************************************************************************)
(* Specification of the channel handler over a loaded registry             *)
(***************************************************************************)
ConnectorTypes == {"telegram", "avatrr"}

\* registry with a Model provider p1, a tool provider a and the connector c1,
\* whose record is bound to an assistant or to none
InitChan ==
  /\ \E type \in ConnectorTypes, assistant \in AssistantIds \cup {""} :
       /\ LoadedRegistry(<<"p1", "a", "c1">>, <<"llm", "tools", type>>)
       /\ records = [NoRecords EXCEPT !["c1"] = PluginRecord(type, "cfg1", TRUE, assistant)]
  /\ env \in [menu : {{RespDone}, {RespSearch}}, throws : {{}}, approves : {TRUE}]
  /\ events = 0
  /\ QuietAutomations
  /\ gw = IdleFrame
  /\ handlerLog = <<>>
  /\ QuietTasks /\ QuietResolution /\ QuietChannels

ToggleChannel(id) ==
  /\ toggleEnabled(id)
  /\ hasConnector(objs[entries[PluginsGet(id)].plugin])

NextChan ==
  \/ \E h \in Handlers, o \in 1..MaxObjects, channelId \in ChannelIds : InboundMessage(h, o, channelId)
  \/ \E h \in Handlers : HandlerNext(h)
  \/ LoopNext
  \/ \E n \in 1..MaxMessages : TypingTick(MessageId(n))
  \/ \E id \in InstanceIds : ToggleChannel(id)

SpecChan == InitChan /\ [][NextChan]_vars

(***************************************************************************)
(* Properties of the channel handler                                       *)
(***************************************************************************)
\* the handler frames that hold an invocation past the enabled/connector guard
Handling(h) == hs[h].pc # "idle" /\ hs[h].outcome # "dropped"

\* C6: once the handler has sent its reply or its error notice, and once it
\* has finished, the typing heartbeat it started is no longer active.
HeartbeatCancelledOnExit ==
  \A h \in Handlers :
    (Handling(h) /\ hs[h].pc \in {"replying", "persistFind", "persistWrite", "errorSent", "done"})
      => hs[h].message.id \notin timers

\* the record of the instance binds no assistant, or one without provider or model
NoUsableAssistant(id) ==
  \/ ~records[id].exists
  \/ records[id].assistant \notin AssistantIds
  \/ Assistants[records[id].assistant].llmProvider = ""
  \/ Assistants[records[id].assistant].llmModel = ""

\* the calls made on connectors in reply to message id
RepliesTo(id) == SelectSeq(sendLog, LAMBDA sent : sent.replyTo = id)

Unbound(h) == Handling(h) /\ NoUsableAssistant(entries[hs[h].entry].id)

NoticeSentOnce ==
  \A h \in Handlers :
    Unbound(h) =>
      /\ hs[h].pc \in {"lookup", "notice", "done"}
      /\ hs[h].pc = "lookup" => RepliesTo(hs[h].message.id) = <<>>
      /\ hs[h].pc = "done" => hs[h].outcome = "notConfigured"
      /\ hs[h].pc \in {"notice", "done"} =>
           RepliesTo(hs[h].message.id) =
             <<Sent(hs[h].connector, "sendMessage", hs[h].message.channelId, NotConfiguredNotice,
                    hs[h].message.id)>>

NoticeOnlyStep ==
  \A h \in Handlers :
    (Unbound(h) /\ hs'[h] # hs[h] /\ hs'[h].message = hs[h].message) =>
      /\ gw' = gw
      /\ handlerLog' = handlerLog
      /\ connectorConversationCache' = connectorConversationCache
      /\ conversations' = conversations
      /\ timers' = timers

AddStarts(t) == tasks[t].op = "idle" /\ tasks'[t].op = "add"

\* C11: addPlugin with a type that is not in the catalog rejects with the
\* not-found error and leaves the registry as it was: no entry is added and
\* an instance present under the id is neither disconnected, shut down nor evicted.
UnknownTypeRejected ==
  /\ [][\A t \in Tasks :
          (AddStarts(t) /\ tasks'[t].type \notin CatalogTypes) =>
             /\ tasks'[t].pc = "threw"
             /\ tasks'[t].error = "Plugin not found in catalog: " \o tasks'[t].type
             /\ plugins' = plugins /\ entries' = entries /\ objs' = objs]_vars
  /\ [][\A t \in Tasks :
          (tasks[t].op = "add" /\ tasks[t].type \notin CatalogTypes) =>
             /\ tasks'[t] \in {tasks[t], IdleTask}
             /\ plugins' = plugins /\ entries' = entries /\ objs' = objs]_vars

\* C11 witness: addPlugin("nope", ..., "c1") was rejected while c1 is loaded
\* and its connector still connected
UnknownTypeRejectedOnPresentId ==
  \E t \in Tasks :
    /\ tasks[t].op = "add" /\ tasks[t].pc = "threw" /\ tasks[t].type = "nope"
    /\ PluginsGet(tasks[t].id) # 0
    /\ LET o == entries[PluginsGet(tasks[t].id)].plugin
       IN objs[o].conn = "up" /\ objs[o].shutdownCalls = 0 /\ objs[o].disconnectCalls = 0

ConfigureStarts(t) == tasks[t].op = "idle" /\ tasks'[t].op = "configure"

\* the step in which configurePlugin call t installs the replacement
ConfigureInstalls(t) == tasks[t].op = "configure" /\ tasks[t].pc = "loading" /\ tasks'[t].pc = "returned"

\* C12: configurePlugin on a present id calls shutdown() on the current object
\* before the replacement is constructed, keeps the entry's id and type,
\* installs a replacement built from the new config, registers the message and
\* slash-command callbacks on it if it is a connector and issues connect();
\* on an absent id it rejects with 'Instance not found' and changes nothing.
ReconfigureSemantics ==
  [][\A t \in Tasks :
       /\ (ConfigureStarts(t) /\ PluginsGet(tasks'[t].id) = 0) =>
            /\ tasks'[t].pc = "threw"
            /\ tasks'[t].error = "Instance not found"
            /\ plugins' = plugins /\ entries' = entries /\ objs' = objs
       /\ (ConfigureStarts(t) /\ PluginsGet(tasks'[t].id) # 0) =>
            LET old == entries[PluginsGet(tasks'[t].id)].plugin
            IN /\ objs'[old].shutdownCalls = objs[old].shutdownCalls + 1
               /\ Len(objs') = Len(objs)
               /\ plugins' = plugins
       /\ ConfigureInstalls(t) =>
            LET e == tasks[t].entry
                old == entries[e].plugin
                new == entries'[e].plugin
            IN /\ objs[old].shutdownCalls >= 1
               /\ new = Len(objs) + 1 /\ Len(objs') = new
               /\ plugins' = plugins /\ plugins[tasks[t].id] = e
               /\ entries'[e].id = entries[e].id /\ entries'[e].type = entries[e].type
               /\ entries'[e].id = tasks[t].id
               /\ entries'[e].config = tasks[t].config
               /\ objs'[new].config = tasks[t].config /\ objs'[new].type = entries[e].type
               /\ objs'[new].shutdownCalls = 0
               /\ IF hasConnector(objs'[new])
                  THEN /\ objs'[new].onMessage = e
                       /\ hasOnSlashCommand(objs'[new]) => objs'[new].onSlashCommand = tasks[t].id
                       /\ objs'[new].connectCalls = 1
                  ELSE objs'[new].connectCalls = 0]_vars

\* C12 witness: a connector instance was reconfigured with another config
ReconfiguredConnector ==
  \E t \in Tasks :
    /\ tasks[t].op = "configure" /\ tasks[t].pc = "returned"
    /\ LET e == PluginsGet(tasks[t].id)
       IN /\ e # 0
          /\ entries[e].plugin = 2
          /\ objs[1].shutdownCalls = 1 /\ objs[1].config # objs[2].config
          /\ objs[2].onMessage = e /\ objs[2].onSlashCommand = tasks[t].id /\ objs[2].connectCalls = 1

(***************************************************************************)
(* Dispatch while instances are toggled                                    *)
(***************************************************************************)
ToggleIds == {"p1", "a", "b"}

\* toggleEnabled called while a chat generation may be in flight
ToggleDuringDispatch(id) ==
  /\ id \in ToggleIds
  /\ toggleEnabled(id)

InitDispatch ==
  /\ LoadedRegistry(<<"p1", "a", "b">>, <<"llm", "tools", "gated">>)
  /\ env = [menu |-> {RespDone, RespSearch}, throws |-> {}, approves |-> TRUE]
  /\ records = NoRecords
  /\ events = 0
  /\ QuietAutomations
  /\ gw = IdleFrame
  /\ handlerLog = <<>>
  /\ QuietTasks /\ QuietResolution /\ QuietChannels

NextDispatch ==
  \/ \E assistantId \in AssistantIds : generateWithAssistant(assistantId)
  \/ LoopNext
  \/ ChatReturn
  \/ \E id \in InstanceIds : ToggleDuringDispatch(id)

SpecDispatch == InitDispatch /\ [][NextDispatch]_vars

\* the instance id is present and its entry enabled
Enabled(id) == PluginsGet(id) # 0 /\ entries[PluginsGet(id)].enabled

\* a step that flips the enabled flag of some entry
Flips == \E e \in 1..Len(entries) : entries'[e].enabled # entries[e].enabled

\* C13: toggleEnabled changes nothing but the enabled flag of the entry, and
\* no Model generate call is made on, and no tool handler run for, an instance
\* whose enabled flag is false at the time of the call.
DisabledNeverDispatched ==
  /\ [][Flips =>
          /\ plugins' = plugins /\ objs' = objs
          /\ Len(entries') = Len(entries)
          /\ \A e \in 1..Len(entries) : [entries'[e] EXCEPT !.enabled = entries[e].enabled] = entries[e]
          /\ Cardinality({e \in 1..Len(entries) : entries'[e].enabled # entries[e].enabled}) = 1]_vars
  /\ [][Len(handlerLog') > Len(handlerLog) =>
          \A i \in (Len(handlerLog) + 1)..Len(handlerLog') : Enabled(handlerLog'[i].instance)]_vars
  /\ [][(gw'.pc \in {"generate", "final"} /\ gw.pc # gw'.pc) => Enabled(gw'.providerId)]_vars

(***************************************************************************)
(* Further properties of the channel handler                               *)
(***************************************************************************)
\* handler h is between the arrival of its message and the end of the error path
BeforeReply(h) == hs[h].pc \in {"lookup", "generating", "errorSent"}

\* the step in which handler h takes the exception of generateWithTools
CatchesFailure(h) == hs[h].pc = "generating" /\ hs'[h].pc = "errorSent"

\* the error notice for the failure `error` of the message of handler h
ErrorNotice(h, error) ==
  IF objs[hs[h].connector].type = "avatrr"
  THEN Sent(hs[h].connector, "sendError", hs[h].message.channelId, error, "")
  ELSE Sent(hs[h].connector, "sendMessage", hs[h].message.channelId, "Error: " \o error, hs[h].message.id)

RECURSIVE InMapOrder(_)
InMapOrder(ids) ==
  IF ids = {} THEN <<>>
  ELSE LET first == CHOOSE id \in ids : \A other \in ids : plugins[id] <= plugins[other]
       IN <<first>> \o InMapOrder(ids \ {first})

getAllEnabledPluginWithToolIds ==
  InMapOrder({id \in InstanceIds : /\ PluginsGet(id) # 0
                                   /\ entries[PluginsGet(id)].enabled
                                   /\ hasTools(objs[entries[PluginsGet(id)].plugin])})

\* `!tools?.length || toolNameToInstanceId == null` for optional arguments
ToolsMissing(tools, toolNameToInstanceId) ==
  \/ tools = None
  \/ Len(tools[1]) = 0
  \/ toolNameToInstanceId = None

\* for (const [name, id] of nameToInstanceId) toolNameToInstanceId.set(name, id)
MapMerge(map, nameToInstanceId) ==
  [n \in DOMAIN map \cup DOMAIN nameToInstanceId |->
     IF n \in DOMAIN nameToInstanceId THEN nameToInstanceId[n] ELSE map[n]]

\* the tools, reverse index and action context generateWithProvider goes on
\* with after its two fallbacks; tools and toolNameToInstanceId are optional
\* (None when not passed), actionContext tells whether one was passed
AfterFallbacks(tools, toolNameToInstanceId, actionContext) ==
  LET pluginIds == getAllEnabledPluginWithToolIds
      built == getToolsForActionIds(pluginIds)
      given == [tools |-> tools, toolNameToInstanceId |-> toolNameToInstanceId,
                actionContext |-> actionContext]
  IN IF ~ToolsMissing(tools, toolNameToInstanceId) THEN given
     ELSE IF actionContext
          THEN IF Len(pluginIds) > 0
               THEN [tools |-> Some(built.tools), toolNameToInstanceId |-> Some(built.nameToInstanceId),
                     actionContext |-> TRUE]
               ELSE given
          ELSE IF Len(built.tools) > 0
               THEN [tools |-> Some((IF tools = None THEN <<>> ELSE tools[1]) \o built.tools),
                     toolNameToInstanceId |->
                       Some(MapMerge(IF toolNameToInstanceId = None THEN <<>> ELSE toolNameToInstanceId[1],
                                     built.nameToInstanceId)),
                     actionContext |-> TRUE]
               ELSE given

\* generateWithProvider up to its first await: the frame of the generateWithTools
\* invocation it delegates to, or of its own single llm.generate call ("direct")
generateWithProvider(instanceId, messages, tools, toolNameToInstanceId, actionContext) ==
  LET e == PluginsGet(instanceId)
      used == AfterFallbacks(tools, toolNameToInstanceId, actionContext)
  IN IF e = 0 \/ ~hasLLM(objs[entries[e].plugin])
     THEN [IdleFrame EXCEPT !.pc = "threw", !.providerId = instanceId, !.messages = messages,
                            !.error = "LLM provider not found"]
     ELSE IF ~entries[e].enabled
          THEN [IdleFrame EXCEPT !.pc = "threw", !.providerId = instanceId, !.messages = messages,
                                 !.error = "LLM provider is disabled"]
          ELSE IF /\ used.tools # None /\ Len(used.tools[1]) > 0
                  /\ used.toolNameToInstanceId # None /\ used.actionContext
               THEN StartFrame(instanceId, messages, used.tools[1], used.toolNameToInstanceId[1])
               ELSE [IdleFrame EXCEPT !.pc = "direct", !.providerId = instanceId, !.messages = messages,
                                      !.currentMessages = messages, !.optionTools = tools]

\* the single llm.generate(model, messages, options) of generateWithProvider answers
DirectGenerateResponds(response) ==
  /\ gw.pc = "direct"
  /\ response \in env.menu
  /\ gw' = [gw EXCEPT !.pc = "returned", !.response = response,
                      !.genLog = Append(@, GenLogEntry(gw, gw.optionTools, response))]
  /\ UNCHANGED <<regVars, taskVars, resVars, chanVars, recVars, env, handlerLog>>

\* the single llm.generate of generateWithProvider rejects
DirectGenerateThrows ==
  /\ gw.pc = "direct"
  /\ gw' = [gw EXCEPT !.pc = "threw", !.error = "upstream failure",
                      !.genLog = Append(@, GenLogEntry(gw, gw.optionTools, NoResponse))]
  /\ UNCHANGED <<regVars, taskVars, resVars, chanVars, recVars, env, handlerLog>>

\* chatService.generate(providerId, model, messages, options): the route's
\* provider/model path, options without tools and without action context
chatGenerate(providerId) ==
  /\ gw.pc = "idle"
  /\ gw' = [generateWithProvider(providerId, ChatInput, None, None, FALSE)
              EXCEPT !.via = "chatService.generate"]
  /\ handlerLog' = <<>>
  /\ UNCHANGED <<regVars, taskVars, resVars, chanVars, recVars, env>>

(***************************************************************************)
(* Automations: executeAutomation, addExecution and the scheduler          *)
(***************************************************************************)
DEFAULT_MAX_EXECUTIONS == 10

\* list.slice(0, n) for n >= 0
SliceFirst(list, n) == IF Len(list) > n THEN SubSeq(list, 1, n) ELSE list

\* an AutomationExecution; time is counted in executeAutomation invocations started
AutomationExecution(timestamp, success, result, durationMs) ==
  [timestamp |-> timestamp, success |-> success, result |-> result, durationMs |-> durationMs]

\* automation.maxExecutions ?? DEFAULT_MAX_EXECUTIONS
maxExecutions(automation) ==
  IF automation.maxExecutions = None THEN DEFAULT_MAX_EXECUTIONS ELSE automation.maxExecutions[1]

NewExecutionsUncapped(automation, execution) == <<execution>> \o automation.executions

\* newExecutions of addExecution(automation, execution)
NewExecutions(automation, execution) ==
  SliceFirst(<<execution>> \o automation.executions, maxExecutions(automation))

\* the lowest run frame that is idle
FreeRun(r) == runs[r].pc = "idle" /\ \A u \in Runs : u < r => runs[u].pc # "idle"

\* executeAutomation(automation) up to its first await; limit bounds the
\* invocations started in one behaviour
executeAutomation(r, id, automation, limit) ==
  /\ FreeRun(r)
  /\ runsStarted < limit
  /\ runsStarted' = runsStarted + 1
  /\ runs' = [runs EXCEPT ![r] = [IdleRun EXCEPT !.pc = "lookup", !.id = id, !.automation = automation,
                                                 !.startTime = runsStarted + 1]]
  /\ UNCHANGED <<automations, scheduledJobs, cronJobs, autoEvents, records, events>>
  /\ UNCHANGED <<regVars, taskVars, loopVars, resVars, chanVars, env>>

\* the cron job of automation id fires: it runs the record it closes over
CronTick(r, id, limit) ==
  /\ scheduledJobs[id] # None
  /\ executeAutomation(r, id, scheduledJobs[id][1], limit)

\* POST /:id/run: the record is read and run in the background
RunNow(r, id, limit) ==
  /\ automations[id].exists
  /\ executeAutomation(r, id, automations[id], limit)

\* addExecution(automation, execution) up to `await automationRepository.update`
AddExecution(frame, success, result) ==
  LET execution == AutomationExecution(runsStarted, success, result, runsStarted - frame.startTime)
  IN [frame EXCEPT !.pc = "storing",
                   !.execution = Some(execution),
                   !.newExecutions = NewExecutions(frame.automation, execution)]

\* messages of an automation run
AutomationMessages(assistant, automation) ==
  (IF assistant.systemPrompt # "" THEN <<LLMMessage("system", assistant.systemPrompt)>> ELSE <<>>)
  \o <<LLMMessage("user", automation.prompt)>>

\* the assistant lookup has resolved: the run fails, or builds tools and
\* messages and calls generateWithProvider
RunLookup(r) ==
  /\ runs[r].pc = "lookup"
  /\ LET frame == runs[r]
         known == frame.automation.assistant \in AssistantIds
     IN IF ~known
        THEN /\ runs' = [runs EXCEPT ![r] = AddExecution(frame, FALSE, "Assistant not found: "
                                                                        \o frame.automation.assistant)]
             /\ UNCHANGED loopVars
        ELSE LET assistant == Assistants[frame.automation.assistant]
                 built == getToolsForActionIds(assistant.tools)
             IN IF assistant.llmProvider = "" \/ assistant.llmModel = ""
                THEN /\ runs' = [runs EXCEPT ![r] =
                                   AddExecution(frame, FALSE, "Assistant has no LLM provider or model configured")]
                     /\ UNCHANGED loopVars
                ELSE /\ gw.pc = "idle"
                     /\ gw' = [generateWithProvider(assistant.llmProvider,
                                                    AutomationMessages(assistant, frame.automation),
                                                    Some(built.tools), Some(built.nameToInstanceId), TRUE)
                                 EXCEPT !.via = "executeAutomation"]
                     /\ handlerLog' = <<>>
                     /\ runs' = [runs EXCEPT ![r].pc = "generating"]
  /\ UNCHANGED <<automations, scheduledJobs, cronJobs, autoEvents, runsStarted, records, events>>
  /\ UNCHANGED <<regVars, taskVars, resVars, chanVars, env>>

\* generateWithProvider settled: the execution entry is built and its update issued
RunGenerationEnds(r) ==
  /\ runs[r].pc = "generating"
  /\ gw.pc \in {"returned", "threw"}
  /\ gw.via = "executeAutomation"
  /\ runs' = [runs EXCEPT ![r] = IF gw.pc = "returned" THEN AddExecution(runs[r], TRUE, "Success")
                                 ELSE AddExecution(runs[r], FALSE, gw.error)]
  /\ gw' = IdleFrame
  /\ UNCHANGED <<automations, scheduledJobs, cronJobs, autoEvents, runsStarted, records, events>>
  /\ UNCHANGED <<regVars, taskVars, resVars, chanVars, env, handlerLog>>

\* an 'update' / 'create' / 'delete' event of the automations collection
AutomationEvent(action, id, record) == [action |-> action, id |-> id, record |-> record]

\* automationRepository.update settles: the record holds the new executions and
\* the collection emits an 'update' event; on a deleted record the update
\* rejects and nothing is stored
RunStored(r) ==
  /\ runs[r].pc = "storing"
  /\ LET id == runs[r].id
         updated == [automations[id] EXCEPT !.executions = runs[r].newExecutions]
     IN IF automations[id].exists
        THEN /\ automations' = [automations EXCEPT ![id] = updated]
             /\ autoEvents' = Append(autoEvents, AutomationEvent("update", id, updated))
        ELSE UNCHANGED <<automations, autoEvents>>
  /\ runs' = [runs EXCEPT ![r] = IdleRun]
  /\ UNCHANGED <<scheduledJobs, cronJobs, runsStarted, records, events>>
  /\ UNCHANGED <<regVars, taskVars, loopVars, resVars, chanVars, env>>

\* scheduleAutomation(record): the job of the id is removed, and a new one is
\* started for an enabled record with a valid cron expression
scheduleAutomation(jobs, id, record) ==
  [jobs EXCEPT ![id] = IF record.enabled /\ record.cron # "invalid" THEN Some(record) ELSE None]

\* unscheduleAutomation(id)
unscheduleAutomation(jobs, id) == [jobs EXCEPT ![id] = None]

\* new CronJob(automation.cron, onTick, null, true, 'UTC'): started at once;
\* the record its callback closes over is the one kept in scheduledJobs
CronJob(id, record) == [automationId |-> id, cron |-> record.cron, running |-> TRUE]

\* the job held by the Map for id: the one constructed last for the id
ScheduledJobOf(cj, id) ==
  CHOOSE j \in 1..Len(cj) :
    /\ cj[j].automationId = id
    /\ \A k \in 1..Len(cj) : cj[k].automationId = id => k <= j

\* unscheduleAutomation(id) on the job objects: scheduled.job.stop()
StopScheduled(cj, jobs, id) ==
  IF jobs[id] = None THEN cj ELSE [cj EXCEPT ![ScheduledJobOf(cj, id)].running = FALSE]

StartScheduledKeepingOld(cj, jobs, id, record) ==
  IF record.enabled /\ record.cron # "invalid" THEN Append(cj, CronJob(id, record)) ELSE cj

\* scheduleAutomation(record) on the job objects: the scheduled job is
\* stopped, and a job is constructed for an enabled record unless the
\* constructor rejects the cron expression
StartScheduled(cj, jobs, id, record) ==
  IF record.enabled /\ record.cron # "invalid"
  THEN Append(StopScheduled(cj, jobs, id), CronJob(id, record))
  ELSE StopScheduled(cj, jobs, id)

\* the subscription handler of the automations collection takes the next event
HandleAutomationEvent ==
  /\ autoEvents # <<>>
  /\ LET e == Head(autoEvents)
     IN /\ scheduledJobs' =
             IF e.action = "create"
             THEN IF e.record.enabled THEN scheduleAutomation(scheduledJobs, e.id, e.record) ELSE scheduledJobs
             ELSE IF e.action = "delete"
                  THEN unscheduleAutomation(scheduledJobs, e.id)
                  ELSE scheduleAutomation(scheduledJobs, e.id, e.record)
        /\ cronJobs' =
             IF e.action = "create"
             THEN IF e.record.enabled THEN StartScheduled(cronJobs, scheduledJobs, e.id, e.record) ELSE cronJobs
             ELSE IF e.action = "delete"
                  THEN StopScheduled(cronJobs, scheduledJobs, e.id)
                  ELSE StartScheduled(cronJobs, scheduledJobs, e.id, e.record)
  /\ autoEvents' = Tail(autoEvents)
  /\ UNCHANGED <<automations, runs, runsStarted, records, events>>
  /\ UNCHANGED <<regVars, taskVars, loopVars, resVars, chanVars, env>>

RunNext(r) ==
  \/ RunLookup(r)
  \/ RunGenerationEnds(r)
  \/ RunStored(r)

(***************************************************************************)
(* Specification of automation runs and provider chat over a loaded registry *)
(***************************************************************************)
\* the caller of chatService.generate takes its result or its exception
ChatGenerateReturn ==
  /\ gw.via = "chatService.generate"
  /\ ChatReturn

\* registry with a Model provider p1, with or without the tool providers a and
\* b; one enabled automation au1, scheduled by the initial sync
InitAuto ==
  /\ \/ LoadedRegistry(<<"p1", "a", "b">>, <<"llm", "tools", "gated">>)
     \/ LoadedRegistry(<<"p1">>, <<"llm">>)
  /\ env \in [menu : {{RespDone}, {RespSearch}}, throws : {{}}, approves : {TRUE}]
  /\ records = NoRecords
  /\ events = 0
  /\ \E assistant \in AssistantIds \cup {"gone"} :
       LET record == AutomationRecord(TRUE, "* * * * *", assistant, <<>>, None)
       IN /\ automations = [id \in AutomationIds |-> IF id = "au1" THEN record ELSE NoAutomation]
          /\ scheduledJobs = [id \in AutomationIds |-> IF id = "au1" THEN Some(record) ELSE None]
          /\ cronJobs = <<CronJob("au1", record)>>
  /\ autoEvents = <<>>
  /\ runs = [r \in Runs |-> IdleRun]
  /\ runsStarted = 0
  /\ gw = IdleFrame
  /\ handlerLog = <<>>
  /\ QuietTasks /\ QuietResolution /\ QuietChannels

NextAuto ==
  \/ \E r \in Runs, id \in AutomationIds : CronTick(r, id, MaxStarted)
  \/ \E r \in Runs, id \in AutomationIds : RunNow(r, id, MaxStarted)
  \/ \E r \in Runs : RunNext(r)
  \/ HandleAutomationEvent
  \/ \E providerId \in {"p1", "a"} : chatGenerate(providerId)
  \/ ChatGenerateReturn
  \/ LoopNext
  \/ \E response \in Responses : DirectGenerateResponds(response)
  \/ DirectGenerateThrows

SpecAuto == InitAuto /\ [][NextAuto]_vars

\* the assistant of the automation run that is generating
RunningAssistant == Assistants[runs[CHOOSE r \in Runs : runs[r].pc = "generating"].automation.assistant]

\* C15: during an automation run every Model call that is offered tools is
\* offered exactly the schemas resolved from the ids listed on the run's
\* assistant, and tool handlers run only on instances the assistant lists.
AutomationOffersOwnTools ==
  (gw.via = "executeAutomation" /\ \E r \in Runs : runs[r].pc = "generating") =>
     /\ \A i \in 1..Len(gw.genLog) :
          gw.genLog[i].tools # None =>
            gw.genLog[i].tools[1] = getToolsForActionIds(RunningAssistant.tools).tools
     /\ gw.pc \in {"generate", "tools", "final"} =>
          gw.tools = getToolsForActionIds(RunningAssistant.tools).tools
     /\ \A i \in 1..Len(handlerLog) :
          \E k \in 1..Len(RunningAssistant.tools) : RunningAssistant.tools[k] = handlerLog[i].instance

\* C16: a chatService.generate call (provider and model, no tools) makes a
\* single Model call whose options carry no tool schemas and runs no tool handler.
ProviderChatWithoutTools ==
  gw.via = "chatService.generate" =>
     /\ gw.pc \in {"direct", "returned", "threw"}
     /\ Len(gw.genLog) <= 1
     /\ \A i \in 1..Len(gw.genLog) : gw.genLog[i].tools = None
     /\ handlerLog = <<>>

(***************************************************************************)
(* Specification of the execution history: runs of one automation that do  *)
(* not overlap, each started after the update event of the previous run    *)
(* has rescheduled the job                                                 *)
(***************************************************************************)
\* a cron tick while no run is in progress and no event is pending
SequentialTick(r, id) ==
  /\ \A u \in Runs : runs[u].pc = "idle"
  /\ autoEvents = <<>>
  /\ CronTick(r, id, MaxHistoryRuns)

\* registry with Model provider p1 and tool providers a and b; automation au1
\* with an unset or set maxExecutions and an empty history; the Model answers
\* without tool uses, or its call rejects
InitHistory ==
  /\ LoadedRegistry(<<"p1", "a", "b">>, <<"llm", "tools", "gated">>)
  /\ env = [menu |-> {RespDone}, throws |-> {}, approves |-> TRUE]
  /\ records = NoRecords
  /\ events = 0
  /\ \E assistant \in {"as1", "as4"}, limit \in {None, Some(0), Some(2)} :
       LET record == AutomationRecord(TRUE, "* * * * *", assistant, <<>>, limit)
       IN /\ automations = [id \in AutomationIds |-> IF id = "au1" THEN record ELSE NoAutomation]
          /\ scheduledJobs = [id \in AutomationIds |-> IF id = "au1" THEN Some(record) ELSE None]
          /\ cronJobs = <<CronJob("au1", record)>>
  /\ autoEvents = <<>>
  /\ runs = [r \in Runs |-> IdleRun]
  /\ runsStarted = 0
  /\ gw = IdleFrame
  /\ handlerLog = <<>>
  /\ QuietTasks /\ QuietResolution /\ QuietChannels

NextHistory ==
  \/ \E r \in Runs, id \in AutomationIds : SequentialTick(r, id)
  \/ \E r \in Runs : RunNext(r)
  \/ HandleAutomationEvent
  \/ GenerateResponds(RespDone)
  \/ GenerateThrows

SpecHistory == InitHistory /\ [][NextHistory]_vars

Min(a, b) == IF a < b THEN a ELSE b

\* no run is in progress
RunsIdle == \A r \in Runs : runs[r].pc = "idle"

\* the stored history is newest first
NewestFirst(executions) ==
  \A i \in 1..Len(executions) - 1 : executions[i].timestamp > executions[i + 1].timestamp

\* run r issues its update: the entry it passes records the outcome of the run
\* and the time elapsed since the run started
EntryRecordsOutcome(r) ==
  (runs[r].pc \in {"lookup", "generating"} /\ runs'[r].pc = "storing") =>
     /\ runs'[r].execution # None
     /\ runs'[r].execution[1].success = (runs[r].pc = "generating" /\ gw.pc = "returned")
     /\ runs'[r].execution[1].result = "Success" <=> runs'[r].execution[1].success
     /\ runs'[r].execution[1].durationMs = runs'[r].execution[1].timestamp - runs[r].startTime
     /\ runs'[r].execution[1].durationMs >= 0

\* the update of run r settles: its entry is put in front of the stored
\* history and what exceeds the cap is dropped from the old end
EntryPrepended(r) ==
  (runs[r].pc = "storing" /\ runs'[r].pc = "idle") =>
     LET id == runs[r].id
         cap == maxExecutions(automations[id])
         all == <<runs[r].execution[1]>> \o automations[id].executions
     IN /\ Len(automations'[id].executions) = Min(Len(all), cap)
        /\ \A i \in 1..Len(automations'[id].executions) : automations'[id].executions[i] = all[i]
        /\ \A other \in AutomationIds \ {id} : automations'[other] = automations[other]

SequentialMessage(h, o, channelId) ==
  /\ \A u \in Handlers : hs[u].pc \in {"idle", "done"}
  /\ channelId = "ch2" => Len(CacheGet(CacheKey("c1", "ch2"))) < 2 * MaxSideMessages
  /\ handleConnectorMessage(h, o, channelId, MaxCacheMessages)

\* registry with Model provider p1, tool provider a and connector c1 bound to
\* an assistant with a Model; the Model answers without tool uses
InitCache ==
  /\ \E type \in ConnectorTypes, assistant \in {"as2", "as5"} :
       /\ LoadedRegistry(<<"p1", "a", "c1">>, <<"llm", "tools", type>>)
       /\ records = [NoRecords EXCEPT !["c1"] = PluginRecord(type, "cfg1", TRUE, assistant)]
  /\ env = [menu |-> {RespDone}, throws |-> {}, approves |-> TRUE]
  /\ events = 0
  /\ QuietAutomations
  /\ gw = IdleFrame
  /\ handlerLog = <<>>
  /\ QuietTasks /\ QuietResolution /\ QuietChannels

NextCache ==
  \/ \E h \in Handlers, o \in 1..MaxObjects, channelId \in ChannelIds : SequentialMessage(h, o, channelId)
  \/ \E h \in Handlers : LookupConfigured(h)
  \/ GenerateResponds(RespDone)
  \/ \E h \in Handlers : GenerationReturned(h)
  \/ \E h \in Handlers : ReplySettles(h, TRUE)
  \/ \E h \in Handlers : PersistFind(h, TRUE)
  \/ \E h \in Handlers : PersistWrite(h, TRUE)

SpecCache == InitCache /\ [][NextCache]_vars

CacheKeys == {CacheKey("c1", channelId) : channelId \in ChannelIds}

RECURSIVE WithoutToolEntries(_)
\* the user and assistant entries of a persisted message list, as LLM messages
WithoutToolEntries(messages) ==
  IF messages = <<>> THEN <<>>
  ELSE (IF Head(messages).role = "tool" THEN <<>>
        ELSE <<LLMMessage(Head(messages).role, Head(messages).content)>>)
       \o WithoutToolEntries(Tail(messages))

\* every message exchanged on (c1, channelId) so far, oldest first, as persisted
Exchanged(channelId) ==
  LET i == FindConversation(conversations, "c1", channelId)
  IN IF i = 0 THEN <<>> ELSE WithoutToolEntries(conversations[i].messages)

\* the last n elements of list, or all of them
Newest(list, n) == [i \in 1..Min(Len(list), n) |-> list[Len(list) - Min(Len(list), n) + i]]

\* handler h appends its exchange to the cache: the key holds the newest 30 of
\* its previous content followed by the exchange, the other keys are untouched
CacheRolls(h) ==
  (hs[h].pc = "replying" /\ hs'[h].pc = "persistFind") =>
     LET key == CacheKey("c1", hs[h].message.channelId)
         grown == CacheGet(key) \o <<LLMMessage("user", hs[h].message.content),
                                     LLMMessage("assistant", hs[h].content)>>
     IN /\ key \in DOMAIN connectorConversationCache'
        /\ connectorConversationCache'[key] = Newest(grown, MAX_CACHED_MESSAGES)
        /\ \A k \in DOMAIN connectorConversationCache \ {key} :
              connectorConversationCache'[k] = connectorConversationCache[k]

\* C18: every key of the rolling context cache holds at most 30 messages, and
\* they are the most recently exchanged ones on that key: each handled
\* exchange is appended and the oldest messages are dropped first, so that
\* between two handled messages the cache equals the newest 30 of everything
\* exchanged on the key; the Model is given the cached messages before the
\* new user message.
CacheHoldsNewest ==
  /\ [](\A key \in DOMAIN connectorConversationCache :
          Len(connectorConversationCache[key]) <= MAX_CACHED_MESSAGES)
  /\ []((\A h \in Handlers : hs[h].pc \in {"idle", "done"}) =>
          \A channelId \in ChannelIds :
            CacheGet(CacheKey("c1", channelId)) = Newest(Exchanged(channelId), MAX_CACHED_MESSAGES))
  /\ [][\A h \in Handlers :
          /\ CacheRolls(h)
          /\ (hs[h].pc = "lookup" /\ hs'[h].pc = "generating") =>
                LET cached == CacheGet(CacheKey("c1", hs[h].message.channelId))
                IN SubSeq(gw'.messages, 2, Len(gw'.messages))
                     = cached \o <<LLMMessage("user", hs[h].message.content)>>]_vars

\* more than 30 messages were exchanged on (c1, ch1): the cache holds 30, the
\* first exchange is gone from it, and the cache of (c1, ch2) holds its own exchange
CacheOverflowed ==
  /\ \A h \in Handlers : hs[h].pc \in {"idle", "done"}
  /\ Len(Exchanged("ch1")) > MAX_CACHED_MESSAGES
  /\ Len(CacheGet(CacheKey("c1", "ch1"))) = MAX_CACHED_MESSAGES
  /\ CacheGet(CacheKey("c1", "ch1"))[1] # Exchanged("ch1")[1]
  /\ Len(CacheGet(CacheKey("c1", "ch2"))) = 2

(***************************************************************************)
(* Specification of Model turns that request several tool uses             *)
(***************************************************************************)
\* a Model turn requesting a tool of a, an unknown tool and a tool of b
RespSearchGhostEcho ==
  [content |-> "", toolUses |-> <<ToolUse("t1", "search"), ToolUse("t2", "ghost"), ToolUse("t3", "echo")>>]

TurnResponses == {RespDone, RespSearchGhostEcho}

InitTurn ==
  /\ LoadedRegistry(<<"p1", "a", "b">>, <<"llm", "tools", "gated">>)
  /\ env \in [menu : {TurnResponses}, throws : SUBSET {"search", "echo"}, approves : BOOLEAN]
  /\ records = NoRecords
  /\ events = 0
  /\ QuietAutomations
  /\ gw = IdleFrame
  /\ handlerLog = <<>>
  /\ QuietTasks /\ QuietResolution /\ QuietChannels

NextTurn ==
  \/ \E assistantId \in AssistantIds : generateWithAssistant(assistantId)
  \/ \E response \in TurnResponses : GenerateResponds(response)
  \/ GenerateThrows
  \/ ToolStep
  \/ \E response \in TurnResponses : FinalGenerateResponds(response)
  \/ ChatReturn

SpecTurn == InitTurn /\ [][NextTurn]_vars

\* index in currentMessages of the last assistant turn that requested tool uses
LastTurn ==
  LET turns == {i \in 1..Len(gw.currentMessages) :
                  gw.currentMessages[i].role = "assistant" /\ gw.currentMessages[i].toolUses # <<>>}
  IN IF turns = {} THEN 0 ELSE CHOOSE i \in turns : \A j \in turns : j <= i

\* the tool uses of the last turn that have been executed: those not pending
\* while the turn is being processed, all of them afterwards
ExecutedOfLastTurn ==
  LET requested == gw.currentMessages[LastTurn].toolUses
  IN IF gw.pc = "tools" THEN SubSeq(requested, 1, Len(requested) - Len(gw.pending)) ELSE requested

\* the tool-role messages after the last turn answer the executed tool uses,
\* one each and in the order requested, and what is pending is the rest of
\* the request in its order
TurnInOrder ==
  LastTurn # 0 =>
    LET requested == gw.currentMessages[LastTurn].toolUses
        done == ExecutedOfLastTurn
    IN /\ Len(gw.currentMessages) = LastTurn + Len(done)
       /\ \A k \in 1..Len(done) :
            /\ gw.currentMessages[LastTurn + k].role = "tool"
            /\ gw.currentMessages[LastTurn + k].toolCallId = requested[k].id
            /\ gw.currentMessages[LastTurn + k].toolName = requested[k].name
       /\ gw.pc = "tools" => /\ gw.pending # <<>>
                              /\ gw.pending = SubSeq(requested, Len(done) + 1, Len(requested))

\* one step of the turn: exactly the first pending tool use is executed, at
\* most its own handler runs, and its result message is appended
OneToolAtATime ==
  (gw.pc = "tools" /\ gw' # gw) =>
     LET toolUse == Head(gw.pending)
     IN /\ Len(gw'.toolUsages) = Len(gw.toolUsages) + 1
        /\ Last(gw'.toolUsages).toolName = toolUse.name
        /\ gw'.currentMessages = Append(gw.currentMessages, Last(gw'.currentMessages))
        /\ Last(gw'.currentMessages).toolCallId = toolUse.id
        /\ Len(handlerLog') <= Len(handlerLog) + 1
        /\ \A k \in 1..Len(handlerLog') :
              IF k <= Len(handlerLog) THEN handlerLog'[k] = handlerLog[k]
              ELSE handlerLog'[k].id = toolUse.id /\ handlerLog'[k].tool = toolUse.name
        /\ gw'.pc \in {"generate", "final"} <=> Len(gw.pending) = 1

\* C19: within one generateWithTools invocation the tool uses of a Model turn
\* are executed one at a time in the order the Model returned them, their
\* tool-role messages are appended in that order, and the next Model call is
\* made only when every tool use of the turn has its result message.
ToolUsesSequentialInOrder ==
  /\ [](gw.pc \in {"generate", "tools", "final"} => TurnInOrder)
  /\ [](gw.pc \in {"generate", "final"} => gw.pending = <<>>)
  /\ [][OneToolAtATime]_vars
  /\ [][(gw.pc \in {"generate", "final"} /\ Len(gw'.genLog) > Len(gw.genLog)) =>
          Last(gw'.genLog).messages = Len(gw.currentMessages)]_vars

\* a turn of three tool uses was processed: the handlers of search and echo
\* ran in that order, the three result messages follow the turn in the
\* requested order, and the next Model call is due
TurnProcessedInOrder ==
  /\ gw.pc = "generate"
  /\ gw.iter = 1
  /\ Len(handlerLog) = 2
  /\ handlerLog[1].id = "t1" /\ handlerLog[2].id = "t3"
  /\ LastTurn # 0
  /\ Len(gw.currentMessages) = LastTurn + 3
  /\ gw.currentMessages[LastTurn + 1].toolCallId = "t1"
  /\ gw.currentMessages[LastTurn + 2].toolCallId = "t2"
  /\ gw.currentMessages[LastTurn + 3].toolCallId = "t3"

(***************************************************************************)
(* What a tool resolution contributes                                      *)
(***************************************************************************)
\* positions of the id list whose instance contributes and declares the tool
\* that schema describes
ContributingPositions(reg, ids, schema) ==
  {i \in 1..Len(ids) :
     /\ Contributes(reg, ids[i])
     /\ \E k \in 1..Len(DeclaredTools(reg, ids[i])) :
          /\ DeclaredTools(reg, ids[i])[k].name = schema.name
          /\ DeclaredTools(reg, ids[i])[k].description = schema.description}

\* C20: getToolsForActionIds contributes schemas and reverse-index entries only
\* for ids that are present, enabled and implement Tooling: each schema of
\* the result occurs once per listed contributing instance declaring it, each
\* reverse-index entry names a listed contributing instance declaring that
\* tool, ids that are absent, disabled or without Tooling add nothing; every
\* schema carries the tool's fields without the handler; and the names of the
\* schema list are the keys of the reverse index.
OnlyContributorsResolved ==
  resolution.last # None =>
    LET call == resolution.last[1]
        ids == call.actionIds
        reg == call.registry
        map == call.result.nameToInstanceId
        schemas == call.result.tools
        contributors == {i \in 1..Len(ids) : Contributes(reg, ids[i])}
    IN /\ \A k \in 1..Len(schemas) :
            /\ DOMAIN schemas[k] = {"name", "description"}
            /\ ContributingPositions(reg, ids, schemas[k]) # {}
            /\ Occurrences(schemas, schemas[k]) = Cardinality(ContributingPositions(reg, ids, schemas[k]))
       /\ \A i \in contributors : \A k \in 1..Len(DeclaredTools(reg, ids[i])) :
            \E m \in 1..Len(schemas) :
              /\ schemas[m].name = DeclaredTools(reg, ids[i])[k].name
              /\ schemas[m].description = DeclaredTools(reg, ids[i])[k].description
       /\ \A name \in DOMAIN map :
            \E i \in contributors : map[name] = ids[i] /\ HasTool(DeclaredTools(reg, ids[i]), name)
       /\ contributors = {} => schemas = <<>> /\ DOMAIN map = {}
       /\ ToolNamesOf(schemas) = DOMAIN map

\* a list naming a disabled tool provider and an enabled one was resolved: the
\* result holds the tools of the enabled one only
DisabledSkippedInResolution ==
  /\ resolution.last # None
  /\ LET call == resolution.last[1]
     IN /\ Len(call.actionIds) = 2
        /\ call.actionIds[1] # call.actionIds[2]
        /\ call.registry.plugins[call.actionIds[1]] # 0
        /\ hasTools(call.registry.objs[call.registry.entries[call.registry.plugins[call.actionIds[1]]].plugin])
        /\ ~call.registry.entries[call.registry.plugins[call.actionIds[1]]].enabled
        /\ Contributes(call.registry, call.actionIds[2])
        /\ Len(call.result.tools) = Len(DeclaredTools(call.registry, call.actionIds[2]))
        /\ \A name \in DOMAIN call.result.nameToInstanceId :
              call.result.nameToInstanceId[name] = call.actionIds[2]

(***************************************************************************)
(* Tool uses that name no resolved tool                                    *)
(***************************************************************************)
RECURSIVE RequestedSoFar(_)
\* number of tool uses requested by the Model responses of a call log (the
\* calls inside the loop are the first MAX_TOOL_LOOP_ITERATIONS of an invocation)
RequestedSoFar(log) ==
  IF log = <<>> THEN 0 ELSE Len(Head(log).response.toolUses) + RequestedSoFar(Tail(log))

\* the step executes a tool use whose name the reverse index does not hold
UnknownToolStep ==
  /\ gw.pc = "tools"
  /\ gw' # gw
  /\ Head(gw.pending).name \notin DOMAIN gw.nameToInstanceId

\* C21: a requested tool use whose name is not in the reverse index runs no
\* handler, gets the result {error: "Unknown tool: <name>"}, is recorded as one
\* ToolUsageRecord with error set and answered by one tool-role message with
\* the request's toolCallId and toolName, and the loop goes on; every
\* requested tool use, processed with or without success, has exactly one
\* ToolUsageRecord.
UnknownToolRecorded ==
  /\ [][UnknownToolStep =>
          LET toolUse == Head(gw.pending)
              usage == Last(gw'.toolUsages)
              message == Last(gw'.currentMessages)
          IN /\ handlerLog' = handlerLog
             /\ Len(gw'.toolUsages) = Len(gw.toolUsages) + 1
             /\ usage.toolName = toolUse.name
             /\ usage.input = toolUse.input
             /\ usage.error = "Unknown tool: " \o toolUse.name
             /\ usage.output.type = "object"
             /\ DOMAIN usage.output.value = {"error"}
             /\ usage.output.value.error = "Unknown tool: " \o toolUse.name
             /\ Len(gw'.currentMessages) = Len(gw.currentMessages) + 1
             /\ message.role = "tool"
             /\ message.toolCallId = toolUse.id
             /\ message.toolName = toolUse.name
             /\ message.content = "{\"error\":\"Unknown tool: " \o toolUse.name \o "\"}"
             /\ gw'.pc = IF Len(gw.pending) > 1 THEN "tools"
                         ELSE IF gw.iter + 1 < MAX_TOOL_LOOP_ITERATIONS THEN "generate" ELSE "final"]_vars
  /\ [](gw.pc # "idle" =>
          /\ Len(gw.toolUsages) + Len(gw.pending)
               = RequestedSoFar(SubSeq(gw.genLog, 1, Min(Len(gw.genLog), MAX_TOOL_LOOP_ITERATIONS)))
          /\ \A i \in 1..Len(gw.toolUsages) :
               gw.toolUsages[i].error # Undefined \/ gw.toolUsages[i].output.type \in {"string", "object"})

\* the unknown tool of a turn was recorded between two executed tools, and
\* the invocation went on to return a Model response
UnknownToolBetweenKnown ==
  /\ gw.pc = "returned"
  /\ Len(gw.toolUsages) >= 3
  /\ gw.toolUsages[1].toolName = "search" /\ gw.toolUsages[1].error = Undefined
  /\ gw.toolUsages[2].toolName = "ghost" /\ gw.toolUsages[2].error = "Unknown tool: ghost"
  /\ gw.toolUsages[3].toolName = "echo" /\ gw.toolUsages[3].error = Undefined
  /\ Len(handlerLog) = 2

(***************************************************************************)
(* Specification of dispatch while the registry is mutated: chat           *)
(* generations over a registry whose tool provider a is removed,           *)
(* reconfigured or added again by calls that are in flight at the same time *)
(***************************************************************************)
MutatedIds == {"a"}

\* unloadPlugin called while a generation may be in flight (the registry
\* calls themselves are made one after the other)
RemoveDuringDispatch(t, id) ==
  /\ NoTaskInFlight
  /\ unloadPlugin(t, id)
  /\ UNCHANGED recVars

\* configurePlugin called while a generation may be in flight
ReconfigureDuringDispatch(t, id, config) ==
  /\ NoTaskInFlight
  /\ configurePlugin(t, id, config)
  /\ UNCHANGED recVars

\* addPlugin called while a generation may be in flight
AddDuringDispatch(t, type, config, id) ==
  /\ NoTaskInFlight
  /\ addPlugin(t, type, config, id)
  /\ UNCHANGED recVars

\* registry with Model provider p1 and tool provider a
InitMutate ==
  /\ LoadedRegistry(<<"p1", "a">>, <<"llm", "tools">>)
  /\ env \in [menu : {{RespDone}, {RespSearch}}, throws : {{}}, approves : {TRUE}]
  /\ records = NoRecords
  /\ events = 0
  /\ QuietAutomations
  /\ gw = IdleFrame
  /\ handlerLog = <<>>
  /\ QuietTasks /\ QuietResolution /\ QuietChannels

\* a registry call in flight resumes after the await it is at
MutationProgress(t) ==
  \/ addAfterShutdown(t)
  \/ addLoaded(t, TRUE)
  \/ configureAfterShutdown(t)
  \/ configureLoaded(t, TRUE)
  \/ unloadAfterShutdown(t)
  \/ TaskSettles(t)

NextMutate ==
  \/ \E assistantId \in {"as2", "as5"} : generateWithAssistant(assistantId)
  \/ LoopNext
  \/ ChatReturn
  \/ \E t \in Tasks, id \in MutatedIds : RemoveDuringDispatch(t, id)
  \/ \E t \in Tasks, id \in MutatedIds : ReconfigureDuringDispatch(t, id, "cfg2")
  \/ \E t \in Tasks, id \in MutatedIds : AddDuringDispatch(t, "tools", "cfg2", id)
  \/ \E t \in Tasks : MutationProgress(t)

SpecMutate == InitMutate /\ [][NextMutate]_vars

\* the step executes a tool use whose name was resolved to an instance that
\* is no longer in the registry
RemovedInstanceStep ==
  /\ gw.pc = "tools"
  /\ gw' # gw
  /\ Head(gw.pending).name \in DOMAIN gw.nameToInstanceId
  /\ PluginsGet(gw.nameToInstanceId[Head(gw.pending).name]) = 0

\* C22: when the instance a tool was resolved to has been removed from the
\* registry while the generation is in flight, the tool call does not end
\* the loop: no handler runs, one ToolUsageRecord with the error of executeTool
\* and the structured failure as output is recorded, the tool-role message is
\* appended, and the loop goes on to the next tool use or Model call.
RemovedInstanceIsolated ==
  [][RemovedInstanceStep =>
       LET toolUse == Head(gw.pending)
           usage == Last(gw'.toolUsages)
       IN /\ handlerLog' = handlerLog
          /\ Len(gw'.toolUsages) = Len(gw.toolUsages) + 1
          /\ usage.toolName = toolUse.name
          /\ usage.error = "Plugin with tools not found: " \o gw.nameToInstanceId[toolUse.name]
          /\ IsToolFailure(usage)
          /\ Len(gw'.currentMessages) = Len(gw.currentMessages) + 1
          /\ Last(gw'.currentMessages).role = "tool"
          /\ Last(gw'.currentMessages).toolCallId = toolUse.id
          /\ Last(gw'.currentMessages).content = JSONStringify(usage.output.value)
          /\ gw'.pc = IF gw.iter + 1 < MAX_TOOL_LOOP_ITERATIONS THEN "generate" ELSE "final"]_vars

\* a generation that had run a tool of a, then found a removed, and returned
\* a Model response
ReturnedAfterRemoval ==
  /\ gw.pc = "returned"
  /\ PluginsGet("a") = 0
  /\ Len(gw.toolUsages) >= 2
  /\ gw.toolUsages[1].error = Undefined
  /\ Last(gw.toolUsages).error = "Plugin with tools not found: a"
  /\ Len(handlerLog) >= 1

\* the plugin object the registry map holds for id has been shut down
HoldsShutDownObject(id) ==
  /\ PluginsGet(id) # 0
  /\ objs[entries[PluginsGet(id)].plugin].shutdownCalls > 0

\* C23: no dispatch obtains from the registry map a plugin object on which
\* shutdown() has already been called: no tool handler runs on such an object,
\* no tool resolution reads the tools of one, and no generation starts on a
\* Model provider that is one.
DispatchSeesNoShutDownObject ==
  /\ [][Len(handlerLog') > Len(handlerLog) =>
          \A i \in (Len(handlerLog) + 1)..Len(handlerLog') :
            objs[handlerLog'[i].object].shutdownCalls = 0]_vars
  /\ [][(gw.pc = "idle" /\ gw'.pc = "generate") =>
          /\ ~HoldsShutDownObject(gw'.providerId)
          /\ \A name \in DOMAIN gw'.nameToInstanceId :
               ~HoldsShutDownObject(gw'.nameToInstanceId[name])]_vars

(***************************************************************************)
(* Specification of conversation persistence: inbound messages of one      *)
(* connector handled one after the other, answered with or without tool    *)
(* rounds, store reads and writes succeeding                               *)
(***************************************************************************)
\* an inbound message while no handler is running
NextMessage(h, o, channelId) ==
  /\ \A u \in Handlers : hs[u].pc \in {"idle", "done"}
  /\ handleConnectorMessage(h, o, channelId, MaxMessages)

InitPersist ==
  /\ \E type \in ConnectorTypes, assistant \in {"as2", "as5"} :
       /\ LoadedRegistry(<<"p1", "a", "c1">>, <<"llm", "tools", type>>)
       /\ records = [NoRecords EXCEPT !["c1"] = PluginRecord(type, "cfg1", TRUE, assistant)]
  /\ env \in [menu : {{RespDone}, {RespSearch}}, throws : SUBSET {"search"}, approves : {TRUE}]
  /\ events = 0
  /\ QuietAutomations
  /\ gw = IdleFrame
  /\ handlerLog = <<>>
  /\ QuietTasks /\ QuietResolution /\ QuietChannels

NextPersist ==
  \/ \E h \in Handlers, o \in 1..MaxObjects, channelId \in ChannelIds : NextMessage(h, o, channelId)
  \/ \E h \in Handlers : LookupConfigured(h)
  \/ \E response \in Responses : GenerateResponds(response)
  \/ ToolStep
  \/ \E response \in Responses : FinalGenerateResponds(response)
  \/ \E h \in Handlers : GenerationReturned(h)
  \/ \E h \in Handlers : ReplySettles(h, TRUE)
  \/ \E h \in Handlers : PersistFind(h, TRUE)
  \/ \E h \in Handlers : PersistWrite(h, TRUE)

SpecPersist == InitPersist /\ [][NextPersist]_vars

\* the stored entries of the conversation of (connectorId, channelId)
StoredMessages(list, connectorId, channelId) ==
  LET i == FindConversation(list, connectorId, channelId)
  IN IF i = 0 THEN <<>> ELSE list[i].messages

\* the entries an exchange is stored as: the user entry, one tool entry per
\* ToolUsageRecord in order, the assistant entry
IsExchange(entriesOf, message, toolUsages, content) ==
  /\ Len(entriesOf) = Len(toolUsages) + 2
  /\ entriesOf[1].role = "user"
  /\ entriesOf[1].id = message.id
  /\ entriesOf[1].content = message.content
  /\ \A k \in 1..Len(toolUsages) :
       /\ entriesOf[1 + k].role = "tool"
       /\ entriesOf[1 + k].toolUsage = Some(toolUsages[k])
  /\ Last(entriesOf).role = "assistant"
  /\ Last(entriesOf).content = content
  /\ Last(entriesOf).id = "assistant-" \o message.id

\* the persistence write of handler h settles
Persists(h) == hs[h].pc = "persistWrite" /\ hs'[h].pc = "done"

PassedToModel(k) == SubSeq(gw.currentMessages, 1, gw.genLog[k].messages)

\* the positions behind assistant turn i up to the next assistant turn
ResultsOf(list, i) ==
  {r \in (i + 1)..Len(list) : \A q \in (i + 1)..r : list[q].role = "tool"}

\* list starts with the caller's messages; behind them every tool message
\* answers a request of the assistant turn before it, and every request of
\* an assistant turn has exactly one result behind the turn
WellFormedTranscript(list, callerMessages) ==
  /\ Len(list) >= Len(callerMessages)
  /\ SubSeq(list, 1, Len(callerMessages)) = callerMessages
  /\ \A i \in (Len(callerMessages) + 1)..Len(list) :
       /\ list[i].role \in {"assistant", "tool"}
       /\ list[i].role = "tool" =>
            \E j \in (Len(callerMessages) + 1)..(i - 1) :
              /\ list[j].role = "assistant"
              /\ i \in ResultsOf(list, j)
              /\ \E u \in 1..Len(list[j].toolUses) :
                   /\ list[j].toolUses[u].id = list[i].toolCallId
                   /\ list[j].toolUses[u].name = list[i].toolName
       /\ list[i].role = "assistant" =>
            /\ Cardinality(ResultsOf(list, i)) = Len(list[i].toolUses)
            /\ \A u \in 1..Len(list[i].toolUses) :
                 Cardinality({r \in ResultsOf(list, i) :
                                /\ list[r].toolCallId = list[i].toolUses[u].id
                                /\ list[r].toolName = list[i].toolUses[u].name}) = 1

\* C25: every message list generateWithTools passes to the Model starts with
\* the caller's messages unchanged and in order, each tool-role message behind
\* them follows an assistant message requesting the same id and name, each
\* tool use of an assistant message has exactly one result message before the
\* next Model call, and the caller's messages are never modified.
ModelSeesWellFormedTranscript ==
  /\ [](\A k \in 1..Len(gw.genLog) : WellFormedTranscript(PassedToModel(k), gw.messages))
  /\ [][gw.pc \in {"generate", "tools", "final"} =>
          /\ gw'.messages = gw.messages
          /\ Len(gw'.currentMessages) >= Len(gw.currentMessages)
          /\ SubSeq(gw'.currentMessages, 1, Len(gw.currentMessages)) = gw.currentMessages]_vars
  /\ [][Len(gw'.genLog) > Len(gw.genLog) =>
          /\ gw'.genLog = Append(gw.genLog, Last(gw'.genLog))
          /\ Last(gw'.genLog).messages = Len(gw.currentMessages)]_vars

\* the Model was called a third time, behind two turns of three tool uses
\* each, on top of a caller's list that starts with a system prompt
ThirdCallSeesTwoTurns ==
  /\ Len(gw.genLog) >= 3
  /\ Len(gw.messages) = 2
  /\ gw.genLog[3].messages = Len(gw.messages) + 8
  /\ PassedToModel(3)[Len(gw.messages) + 1].role = "assistant"
  /\ PassedToModel(3)[Len(gw.messages) + 4].toolCallId = "t3"
  /\ PassedToModel(3)[Len(gw.messages) + 5].role = "assistant"

(***************************************************************************)
(* Specification of the registry under awaited calls whose config the      *)
(* plugin constructor may reject                                           *)
(***************************************************************************)
RejectedConfigs == {"bad"}

\* calls are started while no plugin object has had this many shutdown() calls
MaxShutdownCalls == 2

\* a registry call, possibly with a rejected config, made by a caller that
\* awaits each call before the next
AwaitedCallMayFail(t) ==
  /\ NoTaskInFlight
  /\ \A o \in 1..Len(objs) : objs[o].shutdownCalls < MaxShutdownCalls
  /\ \/ \E type \in RegTypes, config \in Configs \cup RejectedConfigs, id \in RegIds :
          addPlugin(t, type, config, id)
     \/ \E id \in RegIds, config \in Configs \cup RejectedConfigs : configurePlugin(t, id, config)
     \/ \E id \in RegIds : unloadPlugin(t, id)
  /\ UNCHANGED recVars

NextFail ==
  \/ \E t \in Tasks : AwaitedCallMayFail(t)
  \/ \E t \in Tasks : TaskProgress(t)

SpecFail == InitRegistry /\ [][NextFail]_vars

\* configurePlugin call t was left by the exception of loadPlugin
ConfigureFailed(t) ==
  tasks[t].op = "configure" /\ tasks[t].pc = "threw" /\ tasks[t].error = "load failed"

\* C26: when loadPlugin throws during configurePlugin(id, config), the config
\* recorded in the entry of id is the config its plugin object was built
\* from, and that object has not been shut down.
EntryConsistentAfterFailedConfigure ==
  \A t \in Tasks :
    ConfigureFailed(t) =>
      LET entry == entries[tasks[t].entry]
      IN /\ PluginsGet(tasks[t].id) = tasks[t].entry
         /\ entry.config = objs[entry.plugin].config
         /\ objs[entry.plugin].shutdownCalls = 0

(***************************************************************************)
(* Specification of overlapping channel handlers: a second inbound message *)
(* is delivered while the handler of the first is still running            *)
(***************************************************************************)
\* handler frames of the overlapping deliveries
OverlappingHandlers == 1..(MaxHandlers + 1)

InitOverlap ==
  /\ \E type \in ConnectorTypes :
       /\ LoadedRegistry(<<"p1", "a", "c1">>, <<"llm", "tools", type>>)
       /\ records = [NoRecords EXCEPT !["c1"] = PluginRecord(type, "cfg1", TRUE, "as5")]
  /\ env \in [menu : {{RespDone}}, throws : {{}}, approves : {TRUE}]
  /\ events = 0
  /\ QuietAutomations
  /\ gw = IdleFrame
  /\ handlerLog = <<>>
  /\ QuietTasks /\ QuietResolution
  /\ hs = [h \in OverlappingHandlers |-> IdleHandler]
  /\ sendLog = <<>>
  /\ timers = {}
  /\ typingCalls = 0
  /\ connectorConversationCache = <<>>
  /\ conversations = <<>>
  /\ delivered = 0

NextOverlap ==
  \/ \E h \in OverlappingHandlers, o \in 1..MaxObjects, channelId \in ChannelIds :
       handleConnectorMessage(h, o, channelId, MaxMessages)
  \/ \E h \in OverlappingHandlers : LookupConfigured(h)
  \/ \E response \in Responses : GenerateResponds(response)
  \/ \E h \in OverlappingHandlers : GenerationReturned(h)
  \/ \E h \in OverlappingHandlers : ReplySettles(h, TRUE)
  \/ \E h \in OverlappingHandlers : PersistFind(h, TRUE)
  \/ \E h \in OverlappingHandlers : PersistWrite(h, TRUE)

SpecOverlap == InitOverlap /\ [][NextOverlap]_vars

\* C27: there is never more than one conversation record for the same
\* (channel instance id, external channel id), and the exchange of every
\* handler that replied and finished is in the record of its key, also when
\* the persistence steps of two handlers on the same channel interleave.
OneRecordPerChannelNoneLost ==
  /\ \A i, j \in 1..Len(conversations) :
       (/\ conversations[i].connectorId = conversations[j].connectorId
        /\ conversations[i].channelId = conversations[j].channelId) => i = j
  /\ \A h \in DOMAIN hs :
       (hs[h].pc = "done" /\ hs[h].outcome = "replied") =>
         LET stored == StoredMessages(conversations, entries[hs[h].entry].id, hs[h].message.channelId)
         IN \E k \in 1..Len(stored) : stored[k].id = hs[h].message.id

(***************************************************************************)
(* History of automation runs started from cron ticks and run-now requests *)
(***************************************************************************)
\* C28: no run's history entry is lost: when the runs of automation au1
\* started by cron ticks and run-now requests have completed, the stored
\* history holds one entry per run, up to maxExecutions.
EveryRunInHistory ==
  RunsIdle =>
    Len(automations["au1"].executions) = Min(runsStarted, maxExecutions(automations["au1"]))

(***************************************************************************)
(* Convergence of the registry to the plugin records                       *)
(***************************************************************************)
\* the records that are to be loaded
EnabledRecordIds == {id \in InstanceIds : records[id].exists /\ records[id].enabled}

\* C29: once the handlers of all realtime events have finished (every load
\* having succeeded), the loaded instance ids are the ids of the existing
\* records with enabled = true, also when handlers of events for the same id
\* overlapped.
RegistryConvergesToRecords == NoTaskInFlight => LoadedIds = EnabledRecordIds

(***************************************************************************)
(* Specification of the scheduler fed by the realtime events of the        *)
(* automations collection                                                  *)
(***************************************************************************)
\* the records the store is given: enabled or not, cron expression valid or not
StoredAutomations ==
  {AutomationRecord(enabled, cron, "gone", <<>>, None) : enabled \in BOOLEAN, cron \in {"* * * * *", "invalid"}}

\* changes made to the records of the collection in one behaviour
MaxStoreChanges == 2

\* cron ticks in one behaviour
MaxTicks == 1

\* a record is created in the collection, which emits a 'create' event
CreateAutomation(id, record) ==
  /\ events < MaxStoreChanges
  /\ events' = events + 1
  /\ ~automations[id].exists
  /\ automations' = [automations EXCEPT ![id] = record]
  /\ autoEvents' = Append(autoEvents, AutomationEvent("create", id, record))
  /\ UNCHANGED <<scheduledJobs, cronJobs, runs, runsStarted, records>>
  /\ UNCHANGED <<regVars, taskVars, loopVars, resVars, chanVars, env>>

\* enabled or cron of a record are changed, which emits an 'update' event
UpdateAutomation(id, record) ==
  /\ events < MaxStoreChanges
  /\ events' = events + 1
  /\ automations[id].exists
  /\ LET updated == [automations[id] EXCEPT !.enabled = record.enabled, !.cron = record.cron]
     IN /\ updated # automations[id]
        /\ automations' = [automations EXCEPT ![id] = updated]
        /\ autoEvents' = Append(autoEvents, AutomationEvent("update", id, updated))
  /\ UNCHANGED <<scheduledJobs, cronJobs, runs, runsStarted, records>>
  /\ UNCHANGED <<regVars, taskVars, loopVars, resVars, chanVars, env>>

\* a record is deleted, which emits a 'delete' event carrying it
DeleteAutomation(id) ==
  /\ events < MaxStoreChanges
  /\ events' = events + 1
  /\ automations[id].exists
  /\ automations' = [automations EXCEPT ![id] = NoAutomation]
  /\ autoEvents' = Append(autoEvents, AutomationEvent("delete", id, automations[id]))
  /\ UNCHANGED <<scheduledJobs, cronJobs, runs, runsStarted, records>>
  /\ UNCHANGED <<regVars, taskVars, loopVars, resVars, chanVars, env>>

\* the state after initialSyncAutomations over a store that holds au1 or is
\* empty, and subscribeToAutomations
InitSched ==
  /\ LoadedRegistry(<<"p1">>, <<"llm">>)
  /\ env = [menu |-> {RespDone}, throws |-> {}, approves |-> TRUE]
  /\ records = NoRecords
  /\ events = 0
  /\ \E record \in StoredAutomations \cup {NoAutomation} :
       /\ automations = [id \in AutomationIds |-> IF id = "au1" THEN record ELSE NoAutomation]
       /\ scheduledJobs = IF record.enabled
                          THEN scheduleAutomation([id \in AutomationIds |-> None], "au1", record)
                          ELSE [id \in AutomationIds |-> None]
       /\ cronJobs = IF record.enabled
                     THEN StartScheduled(<<>>, [id \in AutomationIds |-> None], "au1", record)
                     ELSE <<>>
  /\ autoEvents = <<>>
  /\ runs = [r \in Runs |-> IdleRun]
  /\ runsStarted = 0
  /\ gw = IdleFrame
  /\ handlerLog = <<>>
  /\ QuietTasks /\ QuietResolution /\ QuietChannels

NextSched ==
  \/ \E id \in AutomationIds, record \in StoredAutomations : CreateAutomation(id, record)
  \/ \E id \in AutomationIds, record \in StoredAutomations : UpdateAutomation(id, record)
  \/ \E id \in AutomationIds : DeleteAutomation(id)
  \/ HandleAutomationEvent
  \/ \E r \in Runs, id \in AutomationIds : CronTick(r, id, MaxTicks)
  \/ \E r \in Runs : RunLookup(r)
  \/ \E r \in Runs : RunStored(r)

SpecSched == InitSched /\ [][NextSched]_vars

\* the cron jobs of automation id that are running
RunningJobs(id) == {j \in 1..Len(cronJobs) : cronJobs[j].automationId = id /\ cronJobs[j].running}

\* the record may have a job: enabled, with a cron expression CronJob accepts
Schedulable(record) == record.exists /\ record.enabled /\ record.cron # "invalid"

\* C30: the scheduler holds at most one running cron job per automation id;
\* every job that is not the one held for its id has been stopped; and once
\* the create/update/delete events have been handled a job is held exactly
\* for the automations whose latest record is enabled with a valid cron
\* expression, built from that record, and none for deleted or disabled ones.
JobsFollowRecords ==
  /\ \A id \in AutomationIds :
       /\ Cardinality(RunningJobs(id)) <= 1
       /\ scheduledJobs[id] = None => RunningJobs(id) = {}
       /\ scheduledJobs[id] # None =>
            /\ RunningJobs(id) = {ScheduledJobOf(cronJobs, id)}
            /\ cronJobs[ScheduledJobOf(cronJobs, id)].cron = scheduledJobs[id][1].cron
            /\ scheduledJobs[id][1].enabled
            /\ scheduledJobs[id][1].cron # "invalid"
  /\ autoEvents = <<>> =>
       \A id \in AutomationIds :
         /\ scheduledJobs[id] # None <=> Schedulable(automations[id])
         /\ scheduledJobs[id] # None => scheduledJobs[id][1] = automations[id]

\* the events are handled; au1 has run, and has a stopped job and a running
\* one that replaced it, and the job of the deleted au2 is stopped
ReplacedAndRemovedJobsStopped ==
  /\ autoEvents = <<>>
  /\ Len(cronJobs) >= 3
  /\ Len(automations["au1"].executions) = 1
  /\ RunningJobs("au1") # {}
  /\ \E j \in 1..Len(cronJobs) : cronJobs[j].automationId = "au1" /\ ~cronJobs[j].running
  /\ ~automations["au2"].exists
  /\ RunningJobs("au2") = {}
  /\ \E j \in 1..Len(cronJobs) : cronJobs[j].automationId = "au2" /\ ~cronJobs[j].running

====
